---- MODULE Spec2Model ----
(***************************************************************************)
(* Host-side driver of the P1150 current-measurement instrument.           *)
(*                                                                         *)
(* The state machines modelled from the source:                            *)
(*                                                                         *)
(*  Spec      the command/response matcher (UCLogger.uclog_response and    *)
(*            UCLogger._uclog_cmdres) together with the controller's main  *)
(*            lock (P1150.cmd, P1150.close).  The matcher is identical in  *)
(*            src/P1150.py and src/p1150_driver/P1150.py.                  *)
(*                                                                         *)
(*  SpecTrig  the trigger engine (P1150._event_adc_stream_in and the       *)
(*            setters).  The repository holds two variants of it: the      *)
(*            deque variant (src/P1150.py) and the fill-counter variant    *)
(*            (src/p1150_driver/P1150.py); the variable "variant" selects  *)
(*            the one a behaviour runs.                                    *)
(*                                                                         *)
(*  SpecPull  the trigger engine without a consumer callback: the          *)
(*            consumer polls with acquisition_get_data and packets are     *)
(*            held in _adc_buf meanwhile.                                  *)
(*                                                                         *)
(*  SpecCobs  cobs framing (enc and dec of cobs_donotuse.py) applied to    *)
(*            byte strings.                                                *)
(*                                                                         *)
(*  SpecMux   MuxEncode and MuxDecode of src/uclog.py applied to payloads. *)
(*                                                                         *)
(*  SpecShut  P1150.close down to Serial.shutdown, with Serial.run,        *)
(*            Target.run and the loops of MySerialManager.                 *)
(*                                                                         *)
(*  SpecLock  the three locks of the driver as the API threads and the     *)
(*            Serial thread take them.                                     *)
(*                                                                         *)
(*  SpecLink  the serial link piece by piece: the padding of               *)
(*            Serial.__call__, the split of the byte stream into frames in *)
(*            MySerialManager.loop, the frame counter of _uclog_adc, the   *)
(*            way of a frame from the port to its handler, and the         *)
(*            low-pass filter of _uclog_adc (src/P1150.py).                *)
(*                                                                         *)
(*  SpecRace  SpecPull with the packet handler and acquisition_stop        *)
(*            running concurrently, as their locks allow, and with two     *)
(*            threads in acquisition_get_data.                             *)
(*                                                                         *)
(*  SpecCal   P1150.calibrate, one exchange with the device at a time.     *)
(*                                                                         *)
(*  SpecTwin  the two variants of the trigger engine fed the same calls    *)
(*            and packets.                                                 *)
(*                                                                         *)
(*  SpecInline  the matcher with a command called from the consumer        *)
(*            callback, which runs on the Serial thread.                   *)
(***************************************************************************)
EXTENDS Integers, Sequences, FiniteSets, TLC

(***************************************************************************)
(* Bounds of the model.                                                    *)
(***************************************************************************)
\* number of command calls made in one behaviour
MaxCmds == 2
\* largest number of responses the device sends for one command
MaxRespPerCmd == 2

(***************************************************************************)
(* Program constants.                                                      *)
(***************************************************************************)
\* uclog_response: retries = 8
RETRIES == 8

Callers == {"c1", "c2"}
Keys == {"f1", "f2"}
Free == "free"

VARIABLES
  \* ---- matcher / controller ----
  lock,            \* P1150._lock: Free or the caller holding it
  ucLogServer,     \* UCLogger._ucLogServer: "up" or "None"
  cmd_responses,   \* UCLogger._cmd_responses: key -> [present, items]
  result_event,    \* UCLogger._result_event
  wire,            \* port-0 responses on their way to the host, in order
  pc,              \* position of each caller
  f,               \* payload["f"] of each caller's call
  retries,         \* local variable retries of uclog_response
  result,          \* value returned by uclog_response
  hist,            \* per call: what happened during the call
  timedOut,        \* keys whose last command returned on exhausted retries
  lastHandled,     \* what _uclog_cmdres did with the last response
  ncmds,           \* number of calls made so far
  \* ---- trigger engine ----
  variant,         \* "deque" (src/P1150.py) or "fill" (src/p1150_driver/P1150.py)
  eng,             \* the attributes of P1150 the trigger engine uses
  obs,             \* what the consumer callback and the trigger search saw
  ncalls,          \* calls of the setters and of start and stop made so far
  \* ---- framing ----
  codec,           \* a byte string on its way through cobs.enc and cobs.dec
  mux,             \* a payload on its way through MuxEncode and MuxDecode
  \* ---- shutdown ----
  srv,             \* the LogClientServer, its threads and the serial process
  \* ---- locks ----
  lk,              \* the three locks and the position of each thread
  \* ---- serial link ----
  link,            \* the sender's queue, the reader's accumulator, the
                   \* frame counter of the ADC decoder
  \* ---- application calls ----
  pull,            \* two threads in acquisition_get_data on one window
  twin,            \* a deque engine and a fill engine fed the same packets
  cal              \* one call of calibrate and the device it talks to

cmdVars == <<lock, ucLogServer, cmd_responses, result_event, wire, pc, f,
             retries, result, hist, timedOut, lastHandled, ncmds>>

trigVars == <<variant, eng, obs, ncalls>>

otherVars == <<codec, mux, srv, lk, link, pull, twin, cal>>

vars == <<cmdVars, trigVars, otherVars>>

\* nothing is being framed
NoCodec == [stage |-> "idle", x |-> <<>>, y |-> <<>>, z |-> <<>>]

\* nothing is being multiplexed
NoMux == [stage |-> "idle", port |-> 0, b |-> <<>>,
          on_data |-> [ports |-> {}, log |-> FALSE, error |-> FALSE],
          frame |-> <<>>, calls |-> <<>>]

\* LogClientServer up: Serial.__init__ started the process and the thread,
\* Target.__init__ started the target thread; opened tells whether
\* serial.Serial() succeeded in loop_iterator (else the process returns
\* before starting any loop)
InitSrv(opened) ==
  [cpc      |-> [t \in Callers |-> "idle"],
   closes   |-> 0,
   raised   |-> FALSE,
   talive   |-> TRUE,
   alive    |-> TRUE,
   msm      |-> "proc",
   malive   |-> TRUE,
   q_cmd    |-> 0,
   qclosed  |-> FALSE,
   reader   |-> IF opened THEN "run" ELSE "notstarted",
   writer   |-> IF opened THEN "run" ELSE "notstarted",
   cmdr     |-> IF opened THEN "run" ELSE "notstarted",
   mended   |-> FALSE,
   lost     |-> FALSE,
   retried  |-> FALSE,
   serial   |-> "loop",
   target   |-> "run"]

\* the Serial thread of uclog.py, which runs the port handlers
SerialThread == "serial"
Threads == Callers \cup {SerialThread}

\* no lock is held
InitLk ==
  [lock           |-> Free,
   lock_responses |-> Free,
   lock_stream    |-> Free,
   tpc            |-> [t \in Threads |-> "idle"],
   up             |-> TRUE,
   alive          |-> TRUE]

\* _adc_frame_count is None
None == -1

\* nothing sent, nothing read, no ADC packet seen; what names the piece of
\* the link a behaviour exercises
NewLink(w) ==
  [what |-> w,
   sent |-> <<>>, q_in |-> <<>>,
   stream |-> <<>>, indata |-> <<>>, out |-> <<>>,
   adc_frame_count |-> None, seen |-> 0, npk |-> 0,
   c |-> 0, reported |-> FALSE, forwarded |-> FALSE,
   frames |-> <<>>, wire_in |-> <<>>, q_out |-> <<>>, disp |-> <<>>,
   i_cache |-> <<0, 0>>, isnk_cache |-> <<0, 0>>,
   item |-> [i |-> <<>>, isnk |-> <<>>, a0 |-> <<>>, d01 |-> <<>>],
   adc |-> [i |-> <<>>, isnk |-> <<>>, a0 |-> <<>>, d01 |-> <<>>]]

\* no acquisition_get_data has run, no pair of engines is fed, calibrate
\* has not been called
InitApp ==
  /\ pull = [n |-> 0]
  /\ twin = [n |-> 0]
  /\ cal = [pc |-> "idle"]

InitOther ==
  /\ codec = NoCodec
  /\ mux = NoMux
  /\ srv = InitSrv(TRUE)
  /\ lk = InitLk
  /\ link = NewLink("idle")
  /\ InitApp

NoResult == [returned |-> FALSE, success |-> FALSE, isNone |-> TRUE, resp |-> <<>>]
FalseNone == [returned |-> TRUE, success |-> FALSE, isNone |-> TRUE, resp |-> <<>>]

\* nsent: payloads sent; waits: calls of wait(); timeouts: waits that ran
\* their full 100 ms; deliv: a port-0 map reached the handler during the call;
\* own / other: one with the call's key / with another key did;
\* inBudget: one with the call's key did before the last wait had timed out
NoHist == [nsent |-> 0, waits |-> 0, timeouts |-> 0, deliv |-> FALSE,
           own |-> FALSE, other |-> FALSE, inBudget |-> FALSE]

\* callers that are between "payload sent" and "uclog_response returned"
InFlight(t) == pc[t] \in {"loop", "wait", "check"}

(***************************************************************************)
(* The device: what it answers to a command with key k.  It may stay       *)
(* silent, answer once or several times, or answer with a map without "f". *)
(***************************************************************************)
RECURSIVE RespSeqs(_, _)
RespSeqs(k, n) ==
  IF n = 0 THEN {<<>>}
  ELSE LET shorter == RespSeqs(k, n - 1)
       IN shorter \cup {Append(r, [f |-> k, s |-> b]) :
                          r \in {x \in shorter : Len(x) = n - 1}, b \in BOOLEAN}

\* "nof" stands for item.f of a port-0 map that has no field "f"
DeviceAnswers(k) == RespSeqs(k, MaxRespPerCmd) \cup {<<[f |-> "nof", s |-> TRUE]>>}

InitCmd ==
  /\ lock = Free
  /\ ucLogServer = "up"
  /\ cmd_responses = [k \in Keys |-> [present |-> FALSE, items |-> <<>>]]
  /\ result_event = FALSE
  /\ wire = <<>>
  /\ pc = [t \in Callers |-> "idle"]
  /\ f = [t \in Callers |-> "f1"]
  /\ retries = [t \in Callers |-> 0]
  /\ result = [t \in Callers |-> NoResult]
  /\ hist = [t \in Callers |-> NoHist]
  /\ timedOut = {}
  /\ lastHandled = [key |-> "nof", kind |-> "none", late |-> FALSE, eventSet |-> FALSE]
  /\ ncmds = 0

\* CmdEnter without mutual exclusion on the main lock
CmdEnter_nolock(t, k) ==
  /\ pc[t] = "idle"
  /\ ncmds < MaxCmds
  /\ lock' = t
  /\ pc' = [pc EXCEPT ![t] = "send"]
  /\ f' = [f EXCEPT ![t] = k]
  /\ result' = [result EXCEPT ![t] = NoResult]
  /\ hist' = [hist EXCEPT ![t] = NoHist]
  /\ ncmds' = ncmds + 1
  /\ UNCHANGED <<ucLogServer, cmd_responses, result_event, wire, retries,
                 timedOut, lastHandled>>
  /\ UNCHANGED <<trigVars, otherVars>>

(***************************************************************************)
(* P1150.cmd (and every other command method): with self._lock             *)
(***************************************************************************)
CmdEnter(t, k) ==
  /\ pc[t] = "idle"
  /\ ncmds < MaxCmds
  /\ lock = Free
  /\ lock' = t
  /\ pc' = [pc EXCEPT ![t] = "send"]
  /\ f' = [f EXCEPT ![t] = k]
  /\ result' = [result EXCEPT ![t] = NoResult]
  /\ hist' = [hist EXCEPT ![t] = NoHist]
  /\ ncmds' = ncmds + 1
  /\ UNCHANGED <<ucLogServer, cmd_responses, result_event, wire, retries,
                 timedOut, lastHandled>>
  /\ UNCHANGED <<trigVars, otherVars>>

\* UclogSend that hands the payload to the server whether it is up or not
UclogSend_anyserver(t) ==
  /\ pc[t] = "send"
  /\ cmd_responses' = [cmd_responses EXCEPT ![f[t]] = [present |-> TRUE, items |-> <<>>]]
  /\ result_event' = FALSE
  /\ timedOut' = timedOut \ {f[t]}
  /\ \E ans \in DeviceAnswers(f[t]) : wire' = wire \o ans
  /\ hist' = [hist EXCEPT ![t].nsent = @ + 1]
  /\ retries' = [retries EXCEPT ![t] = RETRIES]
  /\ pc' = [pc EXCEPT ![t] = "loop"]
  /\ UNCHANGED result
  /\ UNCHANGED <<lock, ucLogServer, f, lastHandled, ncmds>>
  /\ UNCHANGED <<trigVars, otherVars>>

(***************************************************************************)
(* uclog_response, first part: under _lock_responses the pending list of   *)
(* the key is reset, the event cleared and the payload sent.  A send on a  *)
(* closed server raises, and the call returns (False, None).               *)
(***************************************************************************)
UclogSend(t) ==
  /\ pc[t] = "send"
  /\ cmd_responses' = [cmd_responses EXCEPT ![f[t]] = [present |-> TRUE, items |-> <<>>]]
  /\ result_event' = FALSE
  /\ timedOut' = timedOut \ {f[t]}
  /\ IF ucLogServer = "up"
       THEN /\ \E ans \in DeviceAnswers(f[t]) : wire' = wire \o ans
            /\ hist' = [hist EXCEPT ![t].nsent = @ + 1]
            /\ retries' = [retries EXCEPT ![t] = RETRIES]
            /\ pc' = [pc EXCEPT ![t] = "loop"]
            /\ UNCHANGED result
       ELSE /\ result' = [result EXCEPT ![t] = FalseNone]
            /\ pc' = [pc EXCEPT ![t] = "ret"]
            /\ UNCHANGED <<wire, hist, retries>>
  /\ UNCHANGED <<lock, ucLogServer, f, lastHandled, ncmds>>
  /\ UNCHANGED <<trigVars, otherVars>>

\* LoopTop that tests retries before decrementing it
LoopTop_testfirst(t) ==
  /\ pc[t] = "loop"
  /\ retries' = [retries EXCEPT ![t] = @ - 1]
  /\ IF retries[t] = 0
       THEN /\ result' = [result EXCEPT ![t] = FalseNone]
            /\ pc' = [pc EXCEPT ![t] = "ret"]
            /\ timedOut' = timedOut \cup {f[t]}
       ELSE /\ pc' = [pc EXCEPT ![t] = "wait"]
            /\ UNCHANGED <<result, timedOut>>
  /\ UNCHANGED <<lock, ucLogServer, cmd_responses, result_event, wire, f,
                 hist, lastHandled, ncmds>>
  /\ UNCHANGED <<trigVars, otherVars>>

(***************************************************************************)
(* uclog_response, top of the while loop: retries -= 1, return             *)
(* (False, None) when it reaches 0.                                        *)
(***************************************************************************)
LoopTop(t) ==
  /\ pc[t] = "loop"
  /\ retries' = [retries EXCEPT ![t] = @ - 1]
  /\ IF retries[t] - 1 = 0
       THEN /\ result' = [result EXCEPT ![t] = FalseNone]
            /\ pc' = [pc EXCEPT ![t] = "ret"]
            /\ timedOut' = timedOut \cup {f[t]}
       ELSE /\ pc' = [pc EXCEPT ![t] = "wait"]
            /\ UNCHANGED <<result, timedOut>>
  /\ UNCHANGED <<lock, ucLogServer, cmd_responses, result_event, wire, f,
                 hist, lastHandled, ncmds>>
  /\ UNCHANGED <<trigVars, otherVars>>

(***************************************************************************)
(* got = self._result_event.wait(timeout=0.10)                             *)
(***************************************************************************)
WaitGot(t) ==
  /\ pc[t] = "wait"
  /\ result_event
  /\ hist' = [hist EXCEPT ![t].waits = @ + 1]
  /\ pc' = [pc EXCEPT ![t] = "check"]
  /\ UNCHANGED <<lock, ucLogServer, cmd_responses, result_event, wire, f,
                 retries, result, timedOut, lastHandled, ncmds>>
  /\ UNCHANGED <<trigVars, otherVars>>

WaitTimeout(t) ==
  /\ pc[t] = "wait"
  /\ ~result_event
  /\ hist' = [hist EXCEPT ![t].waits = @ + 1, ![t].timeouts = @ + 1]
  /\ pc' = [pc EXCEPT ![t] = "loop"]
  /\ UNCHANGED <<lock, ucLogServer, cmd_responses, result_event, wire, f,
                 retries, result, timedOut, lastHandled, ncmds>>
  /\ UNCHANGED <<trigVars, otherVars>>

(***************************************************************************)
(* uclog_response after a wakeup: under _lock_responses, a non-empty list  *)
(* is popped and returned with the s of its last entry.                    *)
(***************************************************************************)
CheckResponses(t) ==
  /\ pc[t] = "check"
  /\ LET e == cmd_responses[f[t]]
     IN IF e.present /\ Len(e.items) > 0
          THEN /\ result' = [result EXCEPT ![t] =
                     [returned |-> TRUE, success |-> e.items[Len(e.items)].s,
                      isNone |-> FALSE, resp |-> e.items]]
               /\ cmd_responses' = [cmd_responses EXCEPT ![f[t]] =
                                      [present |-> FALSE, items |-> <<>>]]
               /\ pc' = [pc EXCEPT ![t] = "ret"]
          ELSE /\ pc' = [pc EXCEPT ![t] = "loop"]
               /\ UNCHANGED <<result, cmd_responses>>
  /\ UNCHANGED <<lock, ucLogServer, result_event, wire, f, retries, hist,
                 timedOut, lastHandled, ncmds>>
  /\ UNCHANGED <<trigVars, otherVars>>

\* the command method returns: the main lock is released
CmdReturn(t) ==
  /\ pc[t] = "ret"
  /\ lock' = Free
  /\ pc' = [pc EXCEPT ![t] = "idle"]
  \* the locals of the call are gone
  /\ f' = [f EXCEPT ![t] = "f1"]
  /\ retries' = [retries EXCEPT ![t] = 0]
  /\ result' = [result EXCEPT ![t] = NoResult]
  /\ hist' = [hist EXCEPT ![t] = NoHist]
  /\ UNCHANGED <<ucLogServer, cmd_responses, result_event, wire, timedOut,
                 lastHandled, ncmds>>
  /\ UNCHANGED <<trigVars, otherVars>>

\* Cmdres that files a response under every pending key instead of item.f
Cmdres_anykey(item) ==
  LET k == item.f
      seen == [t \in Callers |->
                 IF InFlight(t)
                   THEN [hist[t] EXCEPT !.deliv = TRUE,
                                        !.own = @ \/ (k = f[t]),
                                        !.other = @ \/ (k \in Keys \ {f[t]}),
                                        !.inBudget = @ \/ (k = f[t] /\
                                             hist[t].timeouts < RETRIES - 1)]
                   ELSE hist[t]]
  IN /\ hist' = seen
     /\ lastHandled' = [key |-> k, kind |-> "expected",
                        late |-> k \in timedOut, eventSet |-> TRUE]
     /\ cmd_responses' = [j \in Keys |->
                            IF cmd_responses[j].present
                              THEN [cmd_responses[j] EXCEPT !.items = Append(@, item)]
                              ELSE cmd_responses[j]]
     /\ result_event' = TRUE

\* Cmdres that sets the response event for an unexpected response too
Cmdres_wakes(item) ==
  LET k == item.f
      note(kind, ev) == [key |-> k, kind |-> kind,
                         late |-> k \in timedOut, eventSet |-> ev]
      seen == [t \in Callers |->
                 IF InFlight(t)
                   THEN [hist[t] EXCEPT !.deliv = TRUE,
                                        !.own = @ \/ (k = f[t]),
                                        !.other = @ \/ (k \in Keys \ {f[t]}),
                                        !.inBudget = @ \/ (k = f[t] /\
                                             hist[t].timeouts < RETRIES - 1)]
                   ELSE hist[t]]
  IN /\ hist' = seen
     /\ IF k \notin Keys
          THEN /\ lastHandled' = note("nof", FALSE)
               /\ UNCHANGED <<cmd_responses, result_event>>
          ELSE /\ cmd_responses' = [cmd_responses EXCEPT ![k] =
                                      [present |-> TRUE, items |-> Append(@.items, item)]]
               /\ result_event' = TRUE
               /\ lastHandled' = note(IF cmd_responses[k].present
                                        THEN "expected" ELSE "unexpected", TRUE)

(***************************************************************************)
(* _uclog_cmdres: the port-0 handler, run for the oldest response on the   *)
(* wire.                                                                   *)
(***************************************************************************)
Cmdres(item) ==
  LET k == item.f
      note(kind, ev) == [key |-> k, kind |-> kind,
                         late |-> k \in timedOut, eventSet |-> ev]
      seen == [t \in Callers |->
                 IF InFlight(t)
                   THEN [hist[t] EXCEPT !.deliv = TRUE,
                                        !.own = @ \/ (k = f[t]),
                                        !.other = @ \/ (k \in Keys \ {f[t]}),
                                        !.inBudget = @ \/ (k = f[t] /\
                                             hist[t].timeouts < RETRIES - 1)]
                   ELSE hist[t]]
  IN /\ hist' = seen
     /\ IF k \notin Keys
          THEN /\ lastHandled' = note("nof", FALSE)
               /\ UNCHANGED <<cmd_responses, result_event>>
          ELSE IF cmd_responses[k].present
            THEN /\ cmd_responses' = [cmd_responses EXCEPT ![k].items = Append(@, item)]
                 /\ result_event' = TRUE
                 /\ lastHandled' = note("expected", TRUE)
            ELSE /\ cmd_responses' = [cmd_responses EXCEPT ![k] =
                                        [present |-> TRUE, items |-> <<item>>]]
                 /\ lastHandled' = note("unexpected", FALSE)
                 /\ UNCHANGED result_event

Deliver ==
  /\ ucLogServer = "up"
  /\ wire # <<>>
  /\ Cmdres(Head(wire))
  /\ wire' = Tail(wire)
  /\ UNCHANGED <<lock, ucLogServer, pc, f, retries, result, timedOut, ncmds>>
  /\ UNCHANGED <<trigVars, otherVars>>

(***************************************************************************)
(* P1150.close: with self._lock: uclog_close()                             *)
(***************************************************************************)
Close(t) ==
  /\ pc[t] = "idle"
  /\ lock = Free
  /\ ucLogServer' = "None"
  /\ UNCHANGED <<lock, cmd_responses, result_event, wire, pc, f, retries,
                 result, hist, timedOut, lastHandled, ncmds>>
  /\ UNCHANGED <<trigVars, otherVars>>

NextCmd ==
  \/ \E t \in Callers, k \in Keys : CmdEnter(t, k)
  \/ \E t \in Callers : UclogSend(t)
  \/ \E t \in Callers : LoopTop(t)
  \/ \E t \in Callers : WaitGot(t)
  \/ \E t \in Callers : WaitTimeout(t)
  \/ \E t \in Callers : CheckResponses(t)
  \/ \E t \in Callers : CmdReturn(t)
  \/ \E t \in Callers : Close(t)
  \/ Deliver

(***************************************************************************)
(*                          The trigger engine                             *)
(*                                                                         *)
(* Every handler below runs to completion before the next one starts: the  *)
(* model interleaves whole calls of adc_stream_in, set_timebase,           *)
(* set_trigger, acquisition_start and acquisition_stop.  The cmd_adc round *)
(* trip that acquisition_start and acquisition_stop make after they have   *)
(* changed the engine is the command call of Spec.                         *)
(***************************************************************************)

\* samples per channel in one ADC packet (50 in the device's packets)
PacketLen == 2
\* calls of set_timebase, set_trigger, acquisition_start and
\* acquisition_stop made in one behaviour
MaxCalls == 3
\* capacity of _adc_buf in packets (12500 samples = 250 packets in the source)
AdcBufPackets == 3

\* P1150.D0_VLOW, D1_VLOW, D0_VHIGH, D1_VHIGH
D0_VLOW == 20
D1_VLOW == 40
D0_VHIGH == 1000
D1_VHIGH == 1100

\* raw sample values: below and above the default trigger level
Lo == 0
Hi == 2
\* P1150.__init__: self._trigger_level = 1
DefaultLevel == 1

Variants == {"deque", "fill"}
Modes == {"ACQUIRE_MODE_RUN", "ACQUIRE_MODE_SINGLE", "ACQUIRE_MODE_LOGGER"}
OscModes == {"ACQUIRE_MODE_RUN", "ACQUIRE_MODE_SINGLE"}
Spans == {"TBASE_SPAN_10MS", "TBASE_SPAN_100MS"}

\* the trigger setups set_trigger is called with: <<src, pos, slope>>
TriggerSetups ==
  {<<"TRIG_SRC_NONE", "TRIG_POS_LEFT", "TRIG_SLOPE_RISE">>,
   <<"TRIG_SRC_CUR", "TRIG_POS_CENTER", "TRIG_SLOPE_RISE">>,
   <<"TRIG_SRC_CUR", "TRIG_POS_LEFT", "TRIG_SLOPE_FALL">>,
   <<"TRIG_SRC_D0", "TRIG_POS_RIGHT", "TRIG_SLOPE_EITHER">>,
   <<"TRIG_SRC_CUR", "TRIG_POS_LEFT", "TRIG_SLOPE_EITHER">>}

\* ADC_SAMPLE_RATE * TBASE_MAP[span], in packets: every span of TBASE_MAP
\* holds a whole number of packets (25, 50, 125, 250, ... of 50 samples)
TBASE_MAP == [sp \in Spans |-> IF sp = "TBASE_SPAN_10MS" THEN 1 ELSE 2]

\* int(self.ADC_SAMPLE_RATE * self._timebase_span)
NumSamples(sp) == TBASE_MAP[sp] * PacketLen

AdcBufCap == AdcBufPackets * PacketLen

Keys5 == {"i", "a0", "d0", "d1", "isnk"}

\* self._trig_src_map
TrigSrcMap(src) == IF src = "TRIG_SRC_CUR" THEN "i" ELSE "d0"

Zeros(n) == [k \in 1..n |-> 0]
Min(a, b) == IF a < b THEN a ELSE b

\* packets the device streams: flat low, flat high, one step up or down at
\* any sample, and the packet that sits on the trigger level
Packets ==
  {[k \in 1..PacketLen |-> IF k <= j THEN a ELSE b] :
     <<a, b, j>> \in {Lo, Hi} \X {Lo, Hi} \X (1..PacketLen)}
  \cup {[k \in 1..PacketLen |-> DefaultLevel]}

\* _uclog_adc: the decoded map of a packet of raw samples
Decode(pkt) ==
  [i    |-> pkt,
   isnk |-> [k \in 1..Len(pkt) |-> Hi - pkt[k]],
   a0   |-> [k \in 1..Len(pkt) |-> 10 * pkt[k]],
   d01  |-> pkt]

\* _event_adc_stream_in, first lines: d0 and d1 from the bits of d01
WithDigital(item) ==
  [i |-> item.i, isnk |-> item.isnk, a0 |-> item.a0,
   d0 |-> [k \in 1..Len(item.d01) |-> (item.d01[k] % 2) * D0_VHIGH + D0_VLOW],
   d1 |-> [k \in 1..Len(item.d01) |->
             ((item.d01[k] \div 2) % 2) * D1_VHIGH + D1_VLOW]]

\* the window right after _event_clear_datardy
FreshAdc(v, n) ==
  IF v = "fill"
    THEN [t |-> Zeros(n), i |-> Zeros(n), a0 |-> Zeros(n), d0 |-> Zeros(n),
          d1 |-> Zeros(n), isnk |-> Zeros(n), fill |-> 0]
    ELSE [t |-> <<>>, i |-> <<>>, a0 |-> <<>>, d0 |-> <<>>,
          d1 |-> <<>>, isnk |-> <<>>, fill |-> 0]

EmptyBuf == [i |-> <<>>, a0 |-> <<>>, d0 |-> <<>>, d1 |-> <<>>, isnk |-> <<>>]

\* the time axis, in quarters of a sample period: 4 * ADC_SAMPLE_RATE * t[k]
\* for t[k] = t_start + k / ADC_SAMPLE_RATE, k = 0 .. n - 1
TimeAxis(pos, n) ==
  LET start4 == IF pos = "TRIG_POS_CENTER" THEN -2 * n
                ELSE IF pos = "TRIG_POS_LEFT" THEN -n
                ELSE -3 * n
  IN [k \in 1..n |-> start4 + 4 * (k - 1)]

\* _event_clear_datardy without its first line: the fresh window keeps the
\* size of the previous one
EventClearDatardy_staleN(v, e) ==
  [e EXCEPT !.adc = FreshAdc(v, e.NUM_SAMPLES),
            !.acquire_triggered = FALSE,
            !.acquire_datardy = FALSE]

(***************************************************************************)
(* _event_clear_datardy                                                    *)
(***************************************************************************)
EventClearDatardy(v, e) ==
  [e EXCEPT !.NUM_SAMPLES = NumSamples(e.timebase_span),
            !.adc = FreshAdc(v, NumSamples(e.timebase_span)),
            !.acquire_triggered = FALSE,
            !.acquire_datardy = FALSE]

(***************************************************************************)
(* _set_trigger_idx: int(N / 2), int(N / 4), int(N - N / 4)                *)
(***************************************************************************)
SetTriggerIdx(v, e) ==
  LET n == e.NUM_SAMPLES
      idx == IF e.trigger_pos = "TRIG_POS_CENTER" THEN n \div 2
             ELSE IF e.trigger_pos = "TRIG_POS_LEFT" THEN n \div 4
             ELSE (3 * n) \div 4
  IN [e EXCEPT !.trigger_idx = idx,
               !.timebase_t_recalc = IF v = "fill" THEN TRUE ELSE @]

(***************************************************************************)
(* _event_adc_stream_in, stage by stage.  Each stage maps the record of    *)
(* the engine's attributes to the record after the stage.                  *)
(***************************************************************************)

\* deque(maxlen=n).append / .extend
DequeExtend(s, xs, n) ==
  LET all == s \o xs
  IN IF Len(all) <= n THEN all ELSE SubSeq(all, Len(all) - n + 1, Len(all))

\* np.roll(a, -n)
Roll(a, n) == [k \in 1..Len(a) |-> a[((k - 1 + n) % Len(a)) + 1]]

\* a[lo:hi] = xs for 0-based lo, hi with hi - lo = Len(xs)
SliceAssign(a, lo, xs) ==
  [k \in 1..Len(a) |-> IF k > lo /\ k <= lo + Len(xs) THEN xs[k - lo] ELSE a[k]]

\* self._acquire_datardy is set: the packet goes to _adc_buf
BufferPacket(v, e, item) ==
  IF v = "fill"
    THEN IF Len(e.adc_buf.i) + Len(item.i) <= AdcBufCap
           THEN [e EXCEPT !.adc_buf = [key \in Keys5 |-> e.adc_buf[key] \o item[key]]]
           ELSE e
    ELSE [e EXCEPT !.adc_buf =
            [key \in Keys5 |-> DequeExtend(e.adc_buf[key], item[key], AdcBufCap)]]

\* the fill-counter variant cannot take more buffered samples than the
\* window holds: the slice assignment raises
DrainRaises(v, e) == v = "fill" /\ Len(e.adc_buf.i) > e.NUM_SAMPLES

\* buffered packets are moved to the tail of the window
DrainBuffer(v, e) ==
  LET n == Len(e.adc_buf.i)
  IN IF n = 0 THEN e
     ELSE IF v = "fill"
       THEN [e EXCEPT
               !.adc = [key \in DOMAIN e.adc |->
                          IF key \in Keys5
                            THEN SliceAssign(Roll(e.adc[key], n),
                                             e.NUM_SAMPLES - n, e.adc_buf[key])
                            ELSE e.adc[key]],
               !.adc_buf = EmptyBuf]
       ELSE [e EXCEPT
               !.adc = [key \in DOMAIN e.adc |->
                          IF key \in Keys5
                            THEN DequeExtend(e.adc[key], e.adc_buf[key], e.NUM_SAMPLES)
                            ELSE e.adc[key]],
               !.adc_buf = EmptyBuf]

\* "fill up the buffer": is the window still being filled?
Filling(v, e) ==
  IF v = "fill" THEN e.adc.fill < e.NUM_SAMPLES
                ELSE Len(e.adc.i) < e.NUM_SAMPLES

FillWindow(v, e, item) ==
  IF v = "fill"
    THEN LET cur == e.adc.fill
             end == Min(cur + Len(item.i), e.NUM_SAMPLES)
             take == end - cur
         IN [e EXCEPT
               !.adc = [key \in DOMAIN e.adc |->
                          IF key \in Keys5
                            THEN SliceAssign(e.adc[key], cur, SubSeq(item[key], 1, take))
                            ELSE IF key = "fill" THEN end
                            ELSE e.adc[key]]]
    ELSE [e EXCEPT
            !.adc = [key \in DOMAIN e.adc |->
                       IF key \in Keys5
                         THEN DequeExtend(e.adc[key], item[key], e.NUM_SAMPLES)
                         ELSE e.adc[key]]]

\* the test that ends the handler after the fill step
StillFilling(v, e) ==
  IF v = "fill" THEN e.adc.fill < e.NUM_SAMPLES
                ELSE Len(e.adc.i) <= e.NUM_SAMPLES

NoEdge == [fired |-> FALSE, cur |-> 0, prev |-> 0,
           slope |-> "TRIG_SLOPE_RISE", level |-> 0]

\* one sample of the packet is pushed on every channel of the window
PushSample(v, e, item, k) ==
  [e EXCEPT
     !.adc = [key \in DOMAIN e.adc |->
                IF key \in Keys5
                  THEN IF v = "fill"
                         THEN Append(Tail(e.adc[key]), item[key][k])
                         ELSE DequeExtend(e.adc[key], <<item[key][k]>>, e.NUM_SAMPLES)
                  ELSE e.adc[key]]]

\* the loop of _append_and_trigger from sample k on
RECURSIVE AppendLoop(_, _, _, _, _, _, _)
AppendLoop(v, e, item, src, level, slope, k) ==
  IF k > Len(item.i) THEN [e |-> e, edge |-> NoEdge]
  ELSE
    LET e1 == PushSample(v, e, item, k)
        val == e1.adc[src][e.trigger_idx + 1]
        prev == e.adc[src][e.trigger_idx + 1]
        arm == val < level
        fire == val > level
        armF == val > level
        fireF == val < level
        hit == [e |-> [e1 EXCEPT !.acquire_triggered = TRUE],
                edge |-> [fired |-> TRUE, cur |-> val, prev |-> prev,
                          slope |-> slope, level |-> level]]
        armed == [e1 EXCEPT !.trigger_idx_precond = TRUE]
    IN IF slope = "TRIG_SLOPE_RISE"
         THEN IF ~e.trigger_idx_precond
                THEN AppendLoop(v, IF arm THEN armed ELSE e1, item, src, level, slope, k + 1)
                ELSE IF fire THEN hit
                     ELSE AppendLoop(v, e1, item, src, level, slope, k + 1)
         ELSE IF ~e.trigger_idx_precond
                THEN AppendLoop(v, IF armF THEN armed ELSE e1, item, src, level, slope, k + 1)
                ELSE IF fireF THEN hit
                     ELSE AppendLoop(v, e1, item, src, level, slope, k + 1)

(***************************************************************************)
(* _append_and_trigger                                                     *)
(***************************************************************************)
\* _append_and_trigger that searches a rising edge whenever the slope is
\* EITHER
AppendAndTrigger_eitherrise(v, e, item, src, level, slope) ==
  AppendLoop(v, e, item, src, level,
             IF slope = "TRIG_SLOPE_EITHER" THEN "TRIG_SLOPE_RISE" ELSE slope, 1)

AppendAndTrigger(v, e, item, src, level, slope) ==
  LET resolved == IF slope = "TRIG_SLOPE_EITHER"
                    THEN IF e.adc[src][e.trigger_idx + 1] < e.trigger_level
                           THEN "TRIG_SLOPE_RISE"
                           ELSE "TRIG_SLOPE_FALL"
                    ELSE slope
  IN AppendLoop(v, e, item, src, level, resolved, 1)

(***************************************************************************)
(* _event_adc_stream_in, the mode branch: "OSCILLOSCOPE MODE" and          *)
(* "LOGGER MODE".  The result carries the edge the search fired on.        *)
(***************************************************************************)
DetectTrigger(v, e, item) ==
  IF e.acquire_mode \in OscModes
    THEN LET r == IF e.trigger_src = "TRIG_SRC_NONE"
                    THEN [e |-> [e EXCEPT !.acquire_triggered = TRUE], edge |-> NoEdge]
                    ELSE IF ~e.acquire_triggered
                      THEN AppendAndTrigger(v, e, item, TrigSrcMap(e.trigger_src),
                                            e.trigger_level, e.trigger_slope)
                      ELSE [e |-> e, edge |-> NoEdge]
             e1 == r.e
             axis == TimeAxis(e1.trigger_pos, e1.NUM_SAMPLES)
             e2 == IF ~e1.acquire_triggered THEN e1
                   ELSE IF v = "fill"
                     THEN LET osc == IF e1.timebase_t_recalc THEN axis ELSE e1.osc_t
                          IN [e1 EXCEPT !.timebase_t_recalc = FALSE,
                                        !.osc_t = osc,
                                        !.adc.t = osc]
                     ELSE [e1 EXCEPT !.adc.t = axis]
         IN [e |-> e2, edge |-> r.edge]
    ELSE IF e.acquire_mode = "ACQUIRE_MODE_LOGGER"
      THEN IF ~e.acquire_triggered /\ Len(e.adc.i) >= e.NUM_SAMPLES
             THEN [e |-> [e EXCEPT !.acquire_triggered = TRUE], edge |-> NoEdge]
             ELSE [e |-> e, edge |-> NoEdge]
      ELSE [e |-> e, edge |-> NoEdge]

\* the dict d handed to cb_acquisition_get_data
Snapshot(adc) ==
  [t |-> adc.t, i |-> adc.i, a0 |-> adc.a0, d0 |-> adc.d0, d1 |-> adc.d1,
   isnk |-> adc.isnk]

NoData == [t |-> <<>>, i |-> <<>>, a0 |-> <<>>, d0 |-> <<>>, d1 |-> <<>>,
           isnk |-> <<>>]

\* what one call of the handler did besides changing the engine
Quiet(e) == [e |-> e, ready |-> FALSE, called |-> FALSE, d |-> NoData,
             edge |-> NoEdge, raised |-> FALSE]

\* "send only one asc_triggered message by checking both flags"
DeliverWindow(v, r) ==
  LET e == r.e
  IN IF e.acquire_triggered /\ ~e.acquire_datardy
       THEN LET e1 == [e EXCEPT !.acquire_datardy = TRUE,
                                !.trigger_idx_precond = FALSE]
            IN IF e.cb
                 THEN [e |-> EventClearDatardy(v, e1), ready |-> TRUE,
                       called |-> TRUE, d |-> Snapshot(e1.adc),
                       edge |-> r.edge, raised |-> FALSE]
                 ELSE [e |-> e1, ready |-> TRUE, called |-> FALSE,
                       d |-> NoData, edge |-> r.edge, raised |-> FALSE]
       ELSE [e |-> e, ready |-> FALSE, called |-> FALSE, d |-> NoData,
             edge |-> r.edge, raised |-> FALSE]

(***************************************************************************)
(* _event_adc_stream_in                                                    *)
(***************************************************************************)
EventAdcStreamIn(v, e, item0) ==
  LET item == WithDigital(item0)
  IN IF e.acquire_datardy THEN Quiet(BufferPacket(v, e, item))
     ELSE IF DrainRaises(v, e) THEN [Quiet(e) EXCEPT !.raised = TRUE]
     ELSE LET e2 == DrainBuffer(v, e)
              fills == Filling(v, e2)
              e3 == IF fills THEN FillWindow(v, e2, item) ELSE e2
          IN IF fills /\ StillFilling(v, e3)
               THEN Quiet(e3)
               ELSE DeliverWindow(v, DetectTrigger(v, e3, item))

(***************************************************************************)
(* set_timebase, set_trigger, acquisition_start, acquisition_stop,         *)
(* acquisition_get_data: the engine after the call                         *)
(***************************************************************************)
SetTimebaseEng(v, e, span) ==
  SetTriggerIdx(v, EventClearDatardy(v, [e EXCEPT !.timebase_span = span]))

SetTriggerEng(e, src, pos, slope, level) ==
  [e EXCEPT !.trigger_level = IF src \in {"TRIG_SRC_D0", "TRIG_SRC_D1"}
                                THEN D0_VHIGH \div 2 ELSE level,
            !.trigger_pos = pos,
            !.trigger_slope = slope,
            !.trigger_src = src]

\* acquisition_start that restarts a running acquisition
AcquisitionStartEng_restart(v, e, mode) ==
  LET e1 == SetTriggerIdx(v, [e EXCEPT !.NUM_SAMPLES = NumSamples(e.timebase_span)])
      e2 == EventClearDatardy(v, [e1 EXCEPT !.acquire_mode = mode])
  IN [e2 EXCEPT !.acquire = TRUE]

AcquisitionStartEng(v, e, mode) ==
  IF e.acquire THEN e
  ELSE LET e1 == SetTriggerIdx(v, [e EXCEPT !.NUM_SAMPLES = NumSamples(e.timebase_span)])
           e2 == EventClearDatardy(v, [e1 EXCEPT !.acquire_mode = mode])
       IN [e2 EXCEPT !.acquire = TRUE]

AcquisitionStopEng(v, e) ==
  LET e1 == EventClearDatardy(v, [e EXCEPT !.acquire = FALSE,
                                           !.acquire_triggered = FALSE])
  IN [e1 EXCEPT !.adc_buf = EmptyBuf]

\* acquisition_get_data that hands the window out without resetting it
AcquisitionGetDataEng_noclear(v, e) ==
  IF ~e.acquire_datardy THEN [ok |-> FALSE, d |-> NoData, e |-> e]
  ELSE [ok |-> TRUE, d |-> Snapshot(e.adc), e |-> e]

\* acquisition_get_data: the result (success, d) and the engine afterwards
AcquisitionGetDataEng(v, e) ==
  IF ~e.acquire_datardy THEN [ok |-> FALSE, d |-> NoData, e |-> e]
  ELSE [ok |-> TRUE, d |-> Snapshot(e.adc), e |-> EventClearDatardy(v, e)]

\* the engine after P1150.__init__
InitEng(v, cb) ==
  [acquire |-> FALSE,
   acquire_mode |-> "ACQUIRE_MODE_RUN",
   acquire_triggered |-> FALSE,
   acquire_datardy |-> FALSE,
   trigger_level |-> DefaultLevel,
   trigger_pos |-> "TRIG_POS_CENTER",
   trigger_slope |-> "TRIG_SLOPE_RISE",
   trigger_src |-> "TRIG_SRC_NONE",
   trigger_idx |-> 0,
   trigger_idx_precond |-> FALSE,
   timebase_span |-> "TBASE_SPAN_100MS",
   timebase_t_recalc |-> (v = "fill"),
   osc_t |-> <<>>,
   NUM_SAMPLES |-> IF v = "fill" THEN 0 ELSE NumSamples("TBASE_SPAN_100MS"),
   adc |-> FreshAdc("deque", 0),
   adc_buf |-> EmptyBuf,
   cb |-> cb]

(***************************************************************************)
(* Observations, counted from the acquisition_start that started the       *)
(* running acquisition.                                                    *)
(*   since   with a callback, while clean and the window needs no edge      *)
(*           (LOGGER mode or                                               *)
(*           trigger source NONE): packets handled since that start or     *)
(*           since the last delivery; 0 otherwise                          *)
(*   ncb     invocations of the consumer callback (counted up to 2)        *)
(*   nrdy    times _acquire_datardy was set (counted up to 2)              *)
(*   clean   no set_timebase, set_trigger or acquisition_stop since start  *)
(*   expect  while clean in LOGGER mode: the samples received since start   *)
(*           or since the last delivery                                    *)
(*   raised  an exception has left the packet handler                      *)
(*   tb      set_timebase was called during the running acquisition        *)
(*   recv    while tb: the set of values of i received since that call     *)
(*   ev      what the handling of the last packet did: whether it set      *)
(*           _acquire_datardy, called the callback (for the first time),   *)
(*           in which mode and with which N = NUM_SAMPLES of the active    *)
(*           timebase, after how many packets, the lengths of the          *)
(*           delivered sequences, whether i equalled expect, and the edge  *)
(*           the search fired on, and whether every sample of the window's *)
(*           i is in recv (fresh), whether the window's t is the time axis *)
(*           of the configured trigger position (taxis) and has its zero   *)
(*           at trigger_idx (tzero).  For acquisition_get_data: whether it    *)
(*           returned a window (pulled) or failed (refused), and the       *)
(*           lengths of what it returned.  Every other call resets it.     *)
(***************************************************************************)
NoEvent == [ready |-> FALSE, called |-> FALSE, first |-> FALSE,
            pulled |-> FALSE, refused |-> FALSE,
            mode |-> "ACQUIRE_MODE_RUN", N |-> 0, at |-> 0,
            lens |-> [key \in DOMAIN NoData |-> 0], inorder |-> TRUE,
            fresh |-> TRUE, taxis |-> TRUE, tzero |-> TRUE,
            edge |-> NoEdge]

InitObs == [since |-> 0, ncb |-> 0, nrdy |-> 0, clean |-> FALSE,
            expect |-> <<>>, raised |-> FALSE, tb |-> FALSE, recv |-> {},
            ev |-> NoEvent]

InitTrig ==
  /\ variant \in Variants
  /\ eng = InitEng(variant, TRUE)
  /\ obs = InitObs
  /\ ncalls = 0
  /\ InitOther

\* the driver constructed without cb_acquisition_get_data: the consumer
\* polls and pulls the window with acquisition_get_data
InitPull ==
  /\ InitCmd
  /\ variant \in Variants
  /\ eng = InitEng(variant, FALSE)
  /\ obs = InitObs
  /\ ncalls = 0
  /\ InitOther

\* adc_stream_in: a packet of the ADC stream arrives on port 3; it is
\* dropped while no acquisition runs
AdcStreamIn(e, item0) ==
  IF ~e.acquire THEN Quiet(e) ELSE EventAdcStreamIn(variant, e, item0)

AdcPacket(pkt) ==
  /\ \E r \in {AdcStreamIn(eng, Decode(pkt))} :
     LET \* cap of the packet counter kept in obs: two packets more than
         \* a window
         PktCap == TBASE_MAP["TBASE_SPAN_100MS"] + 2
         counted == eng.acquire /\ eng.cb /\ obs.clean
                      /\ (eng.acquire_mode = "ACQUIRE_MODE_LOGGER"
                            \/ eng.trigger_src = "TRIG_SRC_NONE")
         n == IF counted THEN Min(obs.since + 1, PktCap) ELSE 0
         exp == IF counted /\ eng.acquire_mode = "ACQUIRE_MODE_LOGGER"
                  THEN IF Len(obs.expect) < PktCap * PacketLen
                         THEN obs.expect \o pkt ELSE obs.expect
                  ELSE <<>>
         rcv == IF eng.acquire /\ obs.tb
                  THEN obs.recv \cup {pkt[k] : k \in 1..Len(pkt)}
                  ELSE {}
         win == IF r.called THEN r.d
                ELSE IF r.ready THEN Snapshot(r.e.adc) ELSE NoData
     IN /\ eng' = r.e
        /\ obs' = [since |-> IF r.called THEN 0 ELSE n,
                   ncb |-> IF r.called THEN Min(obs.ncb + 1, 2) ELSE obs.ncb,
                   nrdy |-> IF r.ready THEN Min(obs.nrdy + 1, 2) ELSE obs.nrdy,
                   clean |-> obs.clean,
                   expect |-> IF r.called THEN <<>> ELSE exp,
                   raised |-> obs.raised \/ r.raised,
                   tb |-> obs.tb,
                   recv |-> rcv,
                   ev |-> IF ~eng.acquire THEN NoEvent
                          ELSE [ready |-> r.ready,
                                called |-> r.called,
                                pulled |-> FALSE,
                                refused |-> FALSE,
                                first |-> r.called /\ obs.ncb = 0,
                                mode |-> eng.acquire_mode,
                                N |-> NumSamples(eng.timebase_span),
                                at |-> n,
                                lens |-> [key \in DOMAIN win |-> Len(win[key])],
                                fresh |-> (r.ready /\ obs.tb) => {win.i[k] : k \in 1..Len(win.i)} \subseteq rcv,
                                taxis |-> r.ready =>
                                  win.t = TimeAxis(eng.trigger_pos,
                                                   NumSamples(eng.timebase_span)),
                                tzero |-> r.ready =>
                                  /\ eng.trigger_idx < Len(win.t)
                                  /\ win.t[eng.trigger_idx + 1] = 0,
                                inorder |-> (r.called /\ exp # <<>>) => r.d.i = exp,
                                edge |-> r.edge]]
  /\ UNCHANGED <<variant, ncalls, cmdVars, otherVars>>

SetTimebase(span) ==
  /\ ncalls < MaxCalls
  /\ ncalls' = ncalls + 1
  /\ eng' = SetTimebaseEng(variant, eng, span)
  /\ obs' = [obs EXCEPT !.clean = FALSE, !.since = 0, !.expect = <<>>,
                         !.tb = eng.acquire, !.recv = {},
                         !.ev = NoEvent]
  /\ UNCHANGED <<variant, cmdVars, otherVars>>

SetTrigger(src, pos, slope, level) ==
  /\ ncalls < MaxCalls
  /\ ncalls' = ncalls + 1
  /\ eng' = SetTriggerEng(eng, src, pos, slope, level)
  /\ obs' = [obs EXCEPT !.clean = FALSE, !.since = 0, !.expect = <<>>,
                         !.ev = NoEvent]
  /\ UNCHANGED <<variant, cmdVars, otherVars>>

AcquisitionStart(mode) ==
  /\ ncalls < MaxCalls
  /\ ncalls' = ncalls + 1
  /\ eng' = AcquisitionStartEng(variant, eng, mode)
  /\ obs' = IF eng.acquire THEN [obs EXCEPT !.ev = NoEvent]
            ELSE [InitObs EXCEPT !.clean = TRUE, !.raised = obs.raised]
  /\ UNCHANGED <<variant, cmdVars, otherVars>>

AcquisitionStop ==
  /\ ncalls < MaxCalls
  /\ ncalls' = ncalls + 1
  /\ eng' = AcquisitionStopEng(variant, eng)
  /\ obs' = [obs EXCEPT !.clean = FALSE, !.since = 0, !.expect = <<>>,
                         !.tb = FALSE, !.recv = {},
                         !.ev = NoEvent]
  /\ UNCHANGED <<variant, cmdVars, otherVars>>

AcquisitionGetData ==
  /\ \E r \in {AcquisitionGetDataEng(variant, eng)} :
       /\ eng' = r.e
       /\ obs' = [obs EXCEPT
                    !.since = 0, !.expect = <<>>,
                    !.ev = [NoEvent EXCEPT
                              !.pulled = r.ok,
                              !.refused = ~r.ok,
                              !.mode = eng.acquire_mode,
                              !.N = NumSamples(eng.timebase_span),
                              !.lens = [key \in DOMAIN r.d |-> Len(r.d[key])]]]
  /\ UNCHANGED <<variant, ncalls, cmdVars, otherVars>>

NextTrig ==
  \/ \E pkt \in Packets : AdcPacket(pkt)
  \/ \E span \in Spans : SetTimebase(span)
  \/ \E ts \in TriggerSetups : SetTrigger(ts[1], ts[2], ts[3], DefaultLevel)
  \/ \E mode \in Modes : AcquisitionStart(mode)
  \/ AcquisitionStop

\* the packets streamed to the polling consumer: those that start low
PullPackets == {pkt \in Packets : pkt[1] = Lo}

NextPull ==
  \/ \E pkt \in PullPackets : AdcPacket(pkt)
  \/ AcquisitionGetData
  \/ \E span \in Spans : SetTimebase(span)
  \/ \E ts \in TriggerSetups : SetTrigger(ts[1], ts[2], ts[3], DefaultLevel)
  \/ \E mode \in Modes : AcquisitionStart(mode)
  \/ AcquisitionStop


(***************************************************************************)
(* acquisition_stop holds _lock only, adc_stream_in holds _lock_stream     *)
(* only: the two run concurrently.  The action below is the packet handler *)
(* that has passed its fill test (the window is full) when acquisition_stop *)
(* runs from beginning to end in the calling thread; the handler then goes *)
(* on with its mode branch and its delivery on the attributes that         *)
(* acquisition_stop left.  In the deque variant the edge search would      *)
(* index the deque that acquisition_stop has just emptied and raise        *)
(* IndexError in the Serial thread; the action covers the handlers that    *)
(* do not search there (source NONE, logger mode).                         *)
(***************************************************************************)
AdcPacketAcrossStop(pkt) ==
  /\ ncalls < MaxCalls
  /\ ncalls' = ncalls + 1
  /\ eng.acquire
  /\ ~eng.acquire_datardy
  /\ ~DrainRaises(variant, eng)
  /\ variant = "deque" => \/ eng.trigger_src = "TRIG_SRC_NONE"
                          \/ eng.acquire_mode = "ACQUIRE_MODE_LOGGER"
  /\ LET item == WithDigital(Decode(pkt))
         e2 == DrainBuffer(variant, eng)
         fills == Filling(variant, e2)
         e3 == IF fills THEN FillWindow(variant, e2, item) ELSE e2
     IN /\ ~(fills /\ StillFilling(variant, e3))
        /\ \E r \in {DeliverWindow(variant,
                       DetectTrigger(variant, AcquisitionStopEng(variant, e3), item))} :
             eng' = r.e
  /\ obs' = [obs EXCEPT !.clean = FALSE, !.since = 0, !.expect = <<>>,
                         !.tb = FALSE, !.recv = {},
                         !.ev = NoEvent]
  /\ UNCHANGED <<variant, cmdVars, otherVars>>

\* the ways two calls of acquisition_get_data on one thread each can run
\* into each other; the method takes no lock:
\*   "serial"     the second call tests data_ready after the first cleared it
\*   "both_copy"  both test and copy before either clears
\*   "late_copy"  the second tests before the first clears and copies after
Overlaps == {"serial", "both_copy", "late_copy"}

\* two threads call acquisition_get_data while a window is ready
AcquisitionGetDataTwice(order) ==
  /\ eng.acquire_datardy
  /\ LET first == AcquisitionGetDataEng(variant, eng)
         again == AcquisitionGetDataEng(variant, first.e)
         d2 == IF order = "both_copy" THEN first.d ELSE Snapshot(first.e.adc)
         ok2 == IF order = "serial" THEN again.ok ELSE TRUE
     IN /\ eng' = again.e
        /\ pull' = [n |-> 1,
                    ok |-> <<first.ok, ok2>>,
                    reset |-> <<first.d = Snapshot(first.e.adc),
                                ok2 /\ d2 = Snapshot(first.e.adc)>>]
        /\ obs' = [obs EXCEPT
                     !.since = 0, !.expect = <<>>,
                     !.ev = [NoEvent EXCEPT
                               !.pulled = TRUE,
                               !.mode = eng.acquire_mode,
                               !.N = NumSamples(eng.timebase_span),
                               !.lens = [key \in DOMAIN first.d |->
                                           Len(first.d[key])]]]
  /\ UNCHANGED <<variant, ncalls, cmdVars, codec, mux, srv, lk, link, twin, cal>>

NextRace ==
  \/ NextPull
  \/ \E pkt \in PullPackets : AdcPacketAcrossStop(pkt)
  \/ \E order \in Overlaps : AcquisitionGetDataTwice(order)

SpecRace == InitPull /\ [][NextRace]_vars
(***************************************************************************)
(*                 COBS framing: cobs.enc and cobs.dec                     *)
(***************************************************************************)
\* number of zero-free runs in a framed byte string
MaxRuns == 2

\* the longest run one group carries, and the code of such a group
COBS_RUN == 254
COBS_FULL == 255

Repeat(b, n) == [k \in 1..n |-> b]

\* the runs joined by single zero bytes
RECURSIVE Join(_, _)
Join(lens, b) ==
  IF Len(lens) = 0 THEN <<>>
  ELSE IF Len(lens) = 1 THEN Repeat(b, lens[1])
  ELSE Repeat(b, lens[1]) \o <<0>> \o Join(Tail(lens), b)

\* the inputs: up to MaxRuns zero-free runs of one non-zero byte (1 or 255)
\* whose lengths are short, around the longest group, or two full groups
ByteStrings ==
  {Join(lens, b) :
     lens \in UNION {[1..n -> {0, 1, COBS_RUN - 1, COBS_RUN, COBS_RUN + 1,
                               2 * COBS_RUN}] : n \in 1..MaxRuns},
     b \in {1, COBS_FULL}}

\* data[lo:] for a 0-based lo
From(data, lo) == SubSeq(data, lo + 1, Len(data))

\* the while loop of enc
RECURSIVE EncLoop(_, _)
EncLoop(out, data) ==
  IF Len(data) = 0 THEN out
  ELSE LET \* data.index(b'\0'): the 0-based index of the first zero byte
           zeros == {k \in 1..Len(data) : data[k] = 0}
           i == (CHOOSE k \in zeros : \A j \in zeros : k <= j) - 1
       IN IF i >= COBS_RUN
            THEN LET out1 == out \o <<COBS_FULL>> \o SubSeq(data, 1, COBS_RUN)
                     data1 == From(data, COBS_RUN)
                 IN IF data1 = <<0>> THEN out1 ELSE EncLoop(out1, data1)
            ELSE EncLoop(out \o <<i + 1>> \o SubSeq(data, 1, i), From(data, i + 1))

\* enc(data)
Enc(data) == EncLoop(<<>>, data \o <<0>>)

\* r[:idx-1] + r[idx:] for every idx of dellist, last one first
RECURSIVE Delete(_, _)
Delete(r, dellist) ==
  IF Len(dellist) = 0 THEN r
  ELSE LET idx == dellist[Len(dellist)]
       IN Delete(SubSeq(r, 1, idx - 1) \o From(r, idx),
                 SubSeq(dellist, 1, Len(dellist) - 1))

\* the while loop of dec: out and dellist after it (out is 0-based in the
\* source, so out[k] there is out[k + 1] here)
RECURSIVE DecLoop(_, _, _, _)
DecLoop(data, out, idx, dellist) ==
  IF idx >= Len(data) THEN [out |-> out, dellist |-> dellist]
  ELSE LET code == data[idx + 1]
       IN IF code < COBS_FULL
            THEN DecLoop(data, [out EXCEPT ![idx + code + 1] = 0],
                         idx + code, dellist)
            ELSE DecLoop(data, out, idx + code, Append(dellist, idx + code))

\* dec that treats a full group like any other group
Dec_nodelete(dd) ==
  LET n == Len(dd)
      r == DecLoop(dd, dd \o <<0>>, 0, <<>>)
  IN SubSeq(r.out, 2, n)

\* dec(dd)
Dec(dd) ==
  LET n == Len(dd)
      r == DecLoop(dd, dd \o <<0>>, 0, <<>>)
  IN Delete(SubSeq(r.out, 2, n), r.dellist)

InitCobs ==
  /\ InitCmd
  /\ variant \in Variants
  /\ eng = InitEng(variant, TRUE)
  /\ obs = InitObs
  /\ ncalls = 0
  /\ \E x \in ByteStrings : codec = [stage |-> "raw", x |-> x, y |-> <<>>, z |-> <<>>]
  /\ mux = NoMux
  /\ srv = InitSrv(TRUE)
  /\ lk = InitLk
  /\ link = NewLink("idle")
  /\ InitApp

\* the sender frames the string
CobsEnc ==
  /\ codec.stage = "raw"
  /\ codec' = [codec EXCEPT !.stage = "encoded", !.y = Enc(codec.x)]
  /\ UNCHANGED <<cmdVars, trigVars, mux, srv, lk, link, pull, twin, cal>>

\* the receiver unframes it
CobsDec ==
  /\ codec.stage = "encoded"
  /\ codec' = [codec EXCEPT !.stage = "decoded", !.z = Dec(codec.y)]
  /\ UNCHANGED <<cmdVars, trigVars, mux, srv, lk, link, pull, twin, cal>>

NextCobs == CobsEnc \/ CobsDec

SpecCobs == InitCobs /\ [][NextCobs]_vars

(***************************************************************************)
(*             Port multiplexing: MuxEncode and MuxDecode                  *)
(***************************************************************************)
\* longest payload handed to MuxEncode
MaxPayload == 2

LOG_TYPE_PORT == 3
TARGET_DIGIT_SHIFT == 20
LOG_PORT_MAX == 8

\* one call of the handler of port p with data
PortCall(p, data) == [key |-> "port", port |-> p, arg |-> data]

\* MuxEncode that does not shift the port over the two type bits
MuxEncodeCall_noshift(port, frame) == <<(port + LOG_TYPE_PORT) % 256>> \o frame

\* MuxEncode(port).__call__: the frame handed on; port << 2 has its two low
\* bits clear, so the bitwise or with the type is a sum
MuxEncodeCall(port, frame) == <<port * 4 + LOG_TYPE_PORT>> \o frame

\* struct.unpack('<I', frame[:4])
\* MuxDecode.__call__: the handler calls it makes
MuxDecodeCall(on_data, frame) ==
  IF Len(frame) = 0 THEN <<>>
  ELSE LET p == frame[1] \div 4
           t == frame[1] % 4
       IN IF t = LOG_TYPE_PORT
            THEN IF p \in on_data.ports THEN <<PortCall(p, Tail(frame))>> ELSE <<>>
            ELSE IF Len(frame) >= 4
              THEN LET addr == frame[1] + 256 * frame[2] + 65536 * frame[3]
                               + 16777216 * frame[4]
                       target == (addr \div (2 ^ TARGET_DIGIT_SHIFT)) % 16
                   IN IF on_data.log
                        THEN <<[key |-> "log", port |-> 0,
                                arg |-> <<target, addr>>
                                          \o SubSeq(frame, 5, Len(frame))]>>
                        ELSE <<>>
              ELSE IF on_data.error
                     THEN <<[key |-> "error", port |-> 0, arg |-> frame]>>
                     ELSE <<>>

InitMux ==
  /\ InitCmd
  /\ variant \in Variants
  /\ eng = InitEng(variant, TRUE)
  /\ obs = InitObs
  /\ ncalls = 0
  /\ codec = NoCodec
  /\ srv = InitSrv(TRUE)
  /\ lk = InitLk
  /\ link = NewLink("idle")
  /\ InitApp
  /\ LET \* payloads over bytes that look like a log address, a port
         \* prefix, 0xff
         Payloads == UNION {[1..n -> {0, LOG_TYPE_PORT, 255}] : n \in 0..MaxPayload}
         \* the handler table given to MuxDecode: the ports that have a
         \* handler and whether the keys 'log' and 'error' have one
         HandlerTables(p) ==
           {[ports |-> {p}, log |-> FALSE, error |-> FALSE],
            [ports |-> {p}, log |-> TRUE, error |-> TRUE],
            [ports |-> 0..(LOG_PORT_MAX - 1), log |-> TRUE, error |-> TRUE]}
     IN
     \E p \in 0..(LOG_PORT_MAX - 1), b \in Payloads : \E h \in HandlerTables(p) :
       mux = [stage |-> "raw", port |-> p, b |-> b, on_data |-> h,
              frame |-> <<>>, calls |-> <<>>]

MuxSend ==
  /\ mux.stage = "raw"
  /\ mux' = [mux EXCEPT !.stage = "framed", !.frame = MuxEncodeCall(mux.port, mux.b)]
  /\ UNCHANGED <<cmdVars, trigVars, codec, srv, lk, link, pull, twin, cal>>

MuxReceive ==
  /\ mux.stage = "framed"
  /\ mux' = [mux EXCEPT !.stage = "delivered",
                        !.calls = MuxDecodeCall(mux.on_data, mux.frame)]
  /\ UNCHANGED <<cmdVars, trigVars, codec, srv, lk, link, pull, twin, cal>>

NextMux == MuxSend \/ MuxReceive

SpecMux == InitMux /\ [][NextMux]_vars

(***************************************************************************)
(*                              Shutdown                                   *)
(*                                                                         *)
(* P1150.close -> UCLogger.uclog_close -> Target.shutdown ->               *)
(* Serial.shutdown on the caller's thread; Serial.run and Target.run on    *)
(* their own threads; the read loop, the writer and the cmdr of            *)
(* MySerialManager in the serial process.  The matcher is idle.            *)
(***************************************************************************)

\* close calls made in one behaviour
MaxCloses == 2

\* the matcher state that the shutdown leaves alone
matcherRest == <<cmd_responses, result_event, wire, pc, f, retries, result,
                 hist, timedOut, lastHandled, ncmds>>

\* a loop of the serial process, or a thread, that no longer runs
Ended == {"done", "killed", "died", "notstarted"}

\* P1150.close: with self._lock
CloseEnter(t) ==
  /\ srv.cpc[t] = "idle"
  /\ srv.closes + Cardinality({u \in Callers : srv.cpc[u] # "idle"}) < MaxCloses
  /\ lock = Free
  /\ lock' = t
  /\ srv' = [srv EXCEPT !.cpc[t] = "uclog_close"]
  /\ UNCHANGED <<ucLogServer, matcherRest, trigVars, codec, mux, lk, link, pull, twin, cal>>

\* uclog_close without the test of _ucLogServer: None.shutdown() raises
UclogClose_noguard(t) ==
  /\ srv.cpc[t] = "uclog_close"
  /\ srv' = [srv EXCEPT !.cpc[t] = IF ucLogServer = "up" THEN "target_shutdown"
                                   ELSE "return",
                        !.raised = @ \/ ucLogServer # "up"]
  /\ UNCHANGED <<lock, ucLogServer, matcherRest, trigVars, codec, mux, lk, link, pull, twin, cal>>

\* uclog_close: if self._ucLogServer: ... ; the callbacks are set to None
UclogClose(t) ==
  /\ srv.cpc[t] = "uclog_close"
  /\ srv' = [srv EXCEPT !.cpc[t] = IF ucLogServer = "up" THEN "target_shutdown"
                                   ELSE "return"]
  /\ UNCHANGED <<lock, ucLogServer, matcherRest, trigVars, codec, mux, lk, link, pull, twin, cal>>

\* Target.shutdown: self.alive = False, then every thread's shutdown()
TargetShutdown(t) ==
  /\ srv.cpc[t] = "target_shutdown"
  /\ srv' = [srv EXCEPT !.cpc[t] = "serial_shutdown", !.talive = FALSE]
  /\ UNCHANGED <<lock, ucLogServer, matcherRest, trigVars, codec, mux, lk, link, pull, twin, cal>>

\* Serial.shutdown up to the first join: if self.alive: self.alive = False;
\* if self.msm: q_cmd.put("SHUTDOWN")
SerialShutdown(t) ==
  /\ srv.cpc[t] = "serial_shutdown"
  /\ srv' = IF ~srv.alive THEN [srv EXCEPT !.cpc[t] = "close_queues"]
            ELSE IF srv.msm # "None"
              THEN [srv EXCEPT !.cpc[t] = "join_msm", !.alive = FALSE,
                               !.q_cmd = @ + 1]
              ELSE [srv EXCEPT !.cpc[t] = "join_self", !.alive = FALSE]
  /\ UNCHANGED <<lock, ucLogServer, matcherRest, trigVars, codec, mux, lk, link, pull, twin, cal>>

\* self.msm.join(timeout=1); self.msm = None: returns when the process has
\* ended or after the timeout, whichever comes first
JoinMsm(t) ==
  /\ srv.cpc[t] = "join_msm"
  /\ srv' = [srv EXCEPT !.cpc[t] = "join_self", !.msm = "None"]
  /\ UNCHANGED <<lock, ucLogServer, matcherRest, trigVars, codec, mux, lk, link, pull, twin, cal>>

\* self.join(timeout=1)
JoinSelf(t) ==
  /\ srv.cpc[t] = "join_self"
  /\ srv' = [srv EXCEPT !.cpc[t] = "close_queues"]
  /\ UNCHANGED <<lock, ucLogServer, matcherRest, trigVars, codec, mux, lk, link, pull, twin, cal>>

\* q_out.close(); q_in.close(); q_cmd.close(); back in uclog_close:
\* self._ucLogServer = None
CloseQueues(t) ==
  /\ srv.cpc[t] = "close_queues"
  /\ srv' = [srv EXCEPT !.cpc[t] = "return", !.qclosed = TRUE]
  /\ ucLogServer' = "None"
  /\ UNCHANGED <<lock, matcherRest, trigVars, codec, mux, lk, link, pull, twin, cal>>

\* the end of "with self._lock" in P1150.close
CloseReturn(t) ==
  /\ srv.cpc[t] = "return"
  /\ lock' = Free
  /\ srv' = [srv EXCEPT !.cpc[t] = "idle", !.closes = @ + 1]
  /\ UNCHANGED <<ucLogServer, matcherRest, trigVars, codec, mux, lk, link, pull, twin, cal>>

\* Serial.run: the first operand of "while self.alive and self.msm.is_alive()"
SerialLoopAlive ==
  /\ srv.serial = "loop"
  /\ srv' = [srv EXCEPT !.serial = IF srv.alive THEN "loop_msm" ELSE "exit"]
  /\ UNCHANGED <<cmdVars, trigVars, codec, mux, lk, link, pull, twin, cal>>

\* Serial.run: the second operand (self.msm may have become None
\* meanwhile), then the loop body: q_out.get(timeout=0.1), on_data(frame);
\* queue.Empty and every other exception are caught inside the loop
SerialLoopMsm ==
  /\ srv.serial = "loop_msm"
  /\ srv' = [srv EXCEPT !.serial = IF srv.msm = "None" THEN "died"
                                   ELSE IF srv.mended THEN "exit" ELSE "loop"]
  /\ UNCHANGED <<cmdVars, trigVars, codec, mux, lk, link, pull, twin, cal>>

\* Serial.run after the loop: if self.msm: q_cmd.put("SHUTDOWN"); put on a
\* closed queue raises
SerialExit ==
  /\ srv.serial = "exit"
  /\ srv' = IF srv.msm = "None" THEN [srv EXCEPT !.serial = "done"]
            ELSE IF srv.qclosed THEN [srv EXCEPT !.serial = "died"]
            ELSE [srv EXCEPT !.serial = "sleep", !.q_cmd = @ + 1]
  /\ UNCHANGED <<cmdVars, trigVars, codec, mux, lk, link, pull, twin, cal>>

\* time.sleep(0.15); if self.msm is not None:
SerialSleep ==
  /\ srv.serial = "sleep"
  /\ srv' = [srv EXCEPT !.serial = IF srv.msm = "None" THEN "setnone"
                                   ELSE "terminate"]
  /\ UNCHANGED <<cmdVars, trigVars, codec, mux, lk, link, pull, twin, cal>>

\* self.msm.terminate(): the process and its threads are killed
SerialTerminate ==
  /\ srv.serial = "terminate"
  /\ srv' = IF srv.msm = "None" THEN [srv EXCEPT !.serial = "died"]
            ELSE [srv EXCEPT !.serial = "setnone", !.mended = TRUE,
                    !.reader = IF @ = "run" THEN "killed" ELSE @,
                    !.writer = IF @ = "run" THEN "killed" ELSE @,
                    !.cmdr = IF @ = "run" THEN "killed" ELSE @]
  /\ UNCHANGED <<cmdVars, trigVars, codec, mux, lk, link, pull, twin, cal>>

\* self.msm = None at the end of Serial.run
SerialSetNone ==
  /\ srv.serial = "setnone"
  /\ srv' = [srv EXCEPT !.serial = "done", !.msm = "None"]
  /\ UNCHANGED <<cmdVars, trigVars, codec, mux, lk, link, pull, twin, cal>>

\* Target.run: while self.alive: sleep(.1); break if a thread is not alive
TargetRun ==
  /\ srv.target = "run"
  /\ ~srv.talive \/ srv.serial \in Ended
  /\ srv' = [srv EXCEPT !.target = "done"]
  /\ UNCHANGED <<cmdVars, trigVars, codec, mux, lk, link, pull, twin, cal>>

\* MySerialManager.cmdr: q_cmd.get(timeout=0.1); "SHUTDOWN" clears alive
CmdrGet ==
  /\ srv.cmdr = "run"
  /\ srv.malive
  /\ srv.q_cmd > 0
  /\ srv' = [srv EXCEPT !.q_cmd = @ - 1, !.malive = FALSE]
  /\ UNCHANGED <<cmdVars, trigVars, codec, mux, lk, link, pull, twin, cal>>

\* MySerialManager.loop (then ser.close()), writer and cmdr: the test
\* "while self.alive.is_set()" fails; each comes back to it within the
\* timeout of its read or get
LoopEnd(l) ==
  /\ srv[l] = "run"
  /\ ~srv.malive
  /\ srv' = [srv EXCEPT ![l] = "done"]
  /\ UNCHANGED <<cmdVars, trigVars, codec, mux, lk, link, pull, twin, cal>>

\* one pass of MySerialManager.loop while alive is set: the reads succeed,
\* or one raises SerialException because the device is gone ("connection
\* lost" is logged) and the while loop goes on; once gone the device stays
\* gone
ReaderRead ==
  /\ srv.reader = "run"
  /\ srv.malive
  /\ \E fails \in {srv.lost, TRUE} :
       srv' = [srv EXCEPT !.lost = fails, !.retried = @ \/ srv.lost]
  /\ UNCHANGED <<cmdVars, trigVars, codec, mux, lk, link, pull, twin, cal>>

\* loop_iterator after loop(): both threads joined, the queues closed, the
\* process ends; without an open port it ends at once
MsmEnd ==
  /\ ~srv.mended
  /\ srv.reader \in {"done", "notstarted"}
  /\ srv.writer \in {"done", "notstarted"}
  /\ srv.cmdr \in {"done", "notstarted"}
  /\ srv' = [srv EXCEPT !.mended = TRUE]
  /\ UNCHANGED <<cmdVars, trigVars, codec, mux, lk, link, pull, twin, cal>>

InitShut ==
  /\ InitCmd
  /\ variant \in Variants
  /\ eng = InitEng(variant, TRUE)
  /\ obs = InitObs
  /\ ncalls = 0
  /\ codec = NoCodec
  /\ mux = NoMux
  /\ \E opened \in BOOLEAN : srv = InitSrv(opened)
  /\ lk = InitLk
  /\ link = NewLink("idle")
  /\ InitApp

CloseStep(t) ==
  \/ UclogClose(t)
  \/ TargetShutdown(t)
  \/ SerialShutdown(t)
  \/ JoinMsm(t)
  \/ JoinSelf(t)
  \/ CloseQueues(t)
  \/ CloseReturn(t)

SerialRun ==
  \/ SerialLoopAlive
  \/ SerialLoopMsm
  \/ SerialExit
  \/ SerialSleep
  \/ SerialTerminate
  \/ SerialSetNone

MsmStep ==
  \/ CmdrGet
  \/ \E l \in {"reader", "writer", "cmdr"} : LoopEnd(l)
  \/ MsmEnd

NextShut ==
  \/ \E t \in Callers : CloseEnter(t)
  \/ \E t \in Callers : CloseStep(t)
  \/ SerialRun
  \/ TargetRun
  \/ MsmStep
  \/ ReaderRead

\* every thread that can take a step eventually takes one; nobody is
\* obliged to call close
SpecShut ==
  /\ InitShut
  /\ [][NextShut]_vars
  /\ \A t \in Callers : WF_vars(CloseStep(t))
  /\ WF_vars(SerialRun)
  /\ WF_vars(TargetRun)
  /\ WF_vars(MsmStep)

(***************************************************************************)
(*                               Locks                                     *)
(*                                                                         *)
(* P1150._lock (every API call that talks to the device, and close),       *)
(* UCLogger._lock_responses (the matcher, the port-0 and port-1 handlers,  *)
(* uclog_close) and P1150._lock_stream (adc_stream_in, set_timebase,       *)
(* set_trigger), as the API threads and the Serial thread take and give    *)
(* them back.  Callbacks of the user do not call the API.                  *)
(***************************************************************************)

\* the ports that have a handler taking a lock: 0 _uclog_cmdres,
\* 1 _uclog_async, 3 _uclog_adc -> adc_stream_in
\* the locks P1150.close takes, outermost first
CloseLocks_responses_first == <<"lock_responses", "lock">>

CloseLocks == <<"lock", "lock_responses">>

\* the lock a thread is about to take at its position, "none" if none:
\* with self._lock: at the top of an API call and of close; with
\* self._lock_responses: in uclog_response (before the send and after the
\* wait), uclog_close, _uclog_cmdres and _uclog_async; with
\* self._lock_stream: in set_timebase, set_trigger and adc_stream_in
Wants(t) ==
  CASE lk.tpc[t] = "cmd_lock" -> "lock"
    [] lk.tpc[t] \in {"send_lock", "check_lock", "cmdres_lock", "async_lock"}
         -> "lock_responses"
    [] lk.tpc[t] \in {"stream_lock", "adc_lock"} -> "lock_stream"
    [] lk.tpc[t] = "close_1" -> CloseLocks[1]
    [] lk.tpc[t] = "close_2" -> CloseLocks[2]
    [] OTHER -> "none"

\* an API method is called: one that talks to the device (cmd, ping,
\* status, acquisition_start, acquisition_stop, ...), set_timebase or
\* set_trigger, close, or acquisition_get_data, which takes no lock
Call(t) ==
  /\ lk.tpc[t] = "idle"
  /\ \E at \in {"cmd_lock", "stream_lock", "close_1", "get_data"} :
       lk' = [lk EXCEPT !.tpc[t] = at]
  /\ UNCHANGED <<cmdVars, trigVars, codec, mux, srv, link, pull, twin, cal>>

\* the body of the API method between with self._lock: and
\* uclog_response: nothing for most methods; acquisition_start and
\* acquisition_stop reset the window (_event_clear_datardy) first
ApiBody(t) ==
  /\ lk.tpc[t] \in {"api", "reset"}
  /\ \E to \in (IF lk.tpc[t] = "api" THEN {"reset", "send_lock"}
                 ELSE {"send_lock"}) :
       lk' = [lk EXCEPT !.tpc[t] = to]
  /\ UNCHANGED <<cmdVars, trigVars, codec, mux, srv, link, pull, twin, cal>>

\* threading.Lock.acquire at the head of a with statement
TakeLock(t) ==
  LET \* the position inside the with block entered from position at
      Inside(at) ==
        CASE at = "cmd_lock" -> "api"
          [] at = "send_lock" -> "send"
          [] at = "check_lock" -> "check"
          [] at = "stream_lock" -> "setter"
          [] at = "close_1" -> "close_2"
          [] at = "close_2" -> "shutdown"
          [] at = "cmdres_lock" -> "cmdres"
          [] at = "async_lock" -> "async"
          [] at = "adc_lock" -> "adc"
  IN /\ Wants(t) # "none"
     /\ lk[Wants(t)] = Free
     /\ lk' = [lk EXCEPT ![Wants(t)] = t, !.tpc[t] = Inside(lk.tpc[t])]
  /\ UNCHANGED <<cmdVars, trigVars, codec, mux, srv, link, pull, twin, cal>>

\* uclog_response: the send; the lock is given back; without a server the
\* send raises and the call returns (False, None)
Send(t) ==
  /\ lk.tpc[t] = "send"
  /\ lk' = [lk EXCEPT !.lock_responses = Free,
                      !.tpc[t] = IF lk.up THEN "wait" ELSE "ret"]
  /\ UNCHANGED <<cmdVars, trigVars, codec, mux, srv, link, pull, twin, cal>>

\* uclog_response: retries exhausted, or _result_event.wait(timeout=0.10)
\* returned and the loop goes on; no lock is held but self._lock
Wait(t) ==
  /\ lk.tpc[t] = "wait"
  /\ \E to \in {"ret", "check_lock"} : lk' = [lk EXCEPT !.tpc[t] = to]
  /\ UNCHANGED <<cmdVars, trigVars, codec, mux, srv, link, pull, twin, cal>>

\* uclog_response: the response is there (return) or not (next iteration)
Check(t) ==
  /\ lk.tpc[t] = "check"
  /\ \E to \in {"ret", "wait"} :
       lk' = [lk EXCEPT !.lock_responses = Free, !.tpc[t] = to]
  /\ UNCHANGED <<cmdVars, trigVars, codec, mux, srv, link, pull, twin, cal>>

\* uclog_close: _ucLogServer.shutdown() clears Serial.alive and joins the
\* Serial thread with a timeout of 1 s; _ucLogServer = None
Shutdown(t) ==
  /\ lk.tpc[t] = "shutdown"
  /\ lk' = [lk EXCEPT !.tpc[t] = "closed", !.up = FALSE, !.alive = FALSE]
  /\ UNCHANGED <<cmdVars, trigVars, codec, mux, srv, link, pull, twin, cal>>

\* the end of the API method or of the port handler: the with blocks it is
\* in are left and their locks given back
Return(t) ==
  /\ lk.tpc[t] \in {"ret", "setter", "closed", "get_data", "cmdres", "async",
                    "adc"}
  /\ lk' = [lk EXCEPT !.lock = IF @ = t THEN Free ELSE @,
                      !.lock_responses = IF @ = t THEN Free ELSE @,
                      !.lock_stream = IF @ = t THEN Free ELSE @,
                      !.tpc[t] = "idle"]
  /\ UNCHANGED <<cmdVars, trigVars, codec, mux, srv, link, pull, twin, cal>>

\* Serial.run hands a frame of port p to MuxDecode; adc_stream_in returns
\* before the lock when no acquisition runs (the frame is then not modelled)
Frame(p) ==
  /\ lk.tpc[SerialThread] = "idle"
  /\ lk.alive
  /\ lk' = [lk EXCEPT !.tpc[SerialThread] =
              CASE p = 0 -> "cmdres_lock" [] p = 1 -> "async_lock"
                [] OTHER -> "adc_lock"]
  /\ UNCHANGED <<cmdVars, trigVars, codec, mux, srv, link, pull, twin, cal>>

\* Serial.run leaves its loop once Serial.alive is cleared
SerialDone ==
  /\ lk.tpc[SerialThread] = "idle"
  /\ ~lk.alive
  /\ lk' = [lk EXCEPT !.tpc[SerialThread] = "done"]
  /\ UNCHANGED <<cmdVars, trigVars, codec, mux, srv, link, pull, twin, cal>>

InitLock ==
  /\ InitCmd
  /\ variant \in Variants
  /\ eng = InitEng(variant, TRUE)
  /\ obs = InitObs
  /\ ncalls = 0
  /\ codec = NoCodec
  /\ mux = NoMux
  /\ srv = InitSrv(TRUE)
  /\ lk = InitLk
  /\ link = NewLink("idle")
  /\ InitApp

NextLock ==
  \/ \E t \in Callers : Call(t)
  \/ \E t \in Threads : TakeLock(t)
  \/ \E t \in Callers : ApiBody(t)
  \/ \E t \in Callers : Send(t)
  \/ \E t \in Callers : Wait(t)
  \/ \E t \in Callers : Check(t)
  \/ \E t \in Callers : Shutdown(t)
  \/ \E t \in Threads : Return(t)
  \/ \E p \in {0, 1, 3} : Frame(p)
  \/ SerialDone

SpecLock == InitLock /\ [][NextLock]_vars

(***************************************************************************)
(*                      The serial link, piece by piece                    *)
(*                                                                         *)
(* Serial.__call__ (the sender pads and queues), the deframing of          *)
(* MySerialManager.loop, the frame counter of UCLogger._uclog_adc, the     *)
(* dispatch of received frames by Serial.run and the low-pass filter of    *)
(* _uclog_adc.  A behaviour exercises one of them; link.what tells which.  *)
(***************************************************************************)

\* longest block given to the sender, and blocks sent in one behaviour
MaxSendLen == 4
MaxSends == 2
\* bytes read from the port in one behaviour, and in one read
MaxStream == 4
MaxChunk == 2
\* ADC packets in one behaviour, and the largest value of their counter c
MaxPackets == 3
MaxCount == 3
\* frames the device sends in one behaviour
MaxFrames == 3
\* samples per channel in one ADC packet of the device
AdcSamples == 50
\* _uclog_adc, low-pass filter: range(48)
FILTER_OUT == 48

\* Serial.__call__ padding whatever the length
Pad_always(data) == data \o [k \in 1..(4 - (Len(data) % 4)) |-> 0]

\* Serial.__call__: sl = len(data) % 4; if sl: data += bytes([0] * (4 - sl))
Pad(data) ==
  IF Len(data) % 4 # 0 THEN data \o [k \in 1..(4 - (Len(data) % 4)) |-> 0]
  ELSE data

\* MySerialManager.loop handing empty pieces to the decoder as well
RECURSIVE Deframe_keepempty(_, _)
Deframe_keepempty(indata, out) ==
  IF \A k \in 1..Len(indata) : indata[k] # 0 THEN [indata |-> indata, out |-> out]
  ELSE LET z == CHOOSE k \in 1..Len(indata) :
                  indata[k] = 0 /\ \A j \in 1..(k - 1) : indata[j] # 0
       IN Deframe_keepempty(SubSeq(indata, z + 1, Len(indata)),
                            Append(out, SubSeq(indata, 1, z - 1)))

\* MySerialManager.loop: while b'\x00' in indata: frame, indata =
\* indata.split(b'\x00', 1); if len(frame) > 0: q_out.put_nowait(
\* cobs.dec(frame)); out collects the frames handed to cobs.dec
RECURSIVE Deframe(_, _)
Deframe(indata, out) ==
  IF \A k \in 1..Len(indata) : indata[k] # 0 THEN [indata |-> indata, out |-> out]
  ELSE LET z == CHOOSE k \in 1..Len(indata) :
                  indata[k] = 0 /\ \A j \in 1..(k - 1) : indata[j] # 0
           frame == SubSeq(indata, 1, z - 1)
       IN Deframe(SubSeq(indata, z + 1, Len(indata)),
                  IF Len(frame) > 0 THEN Append(out, frame) ELSE out)

\* _uclog_adc reporting without the lazy initialisation
FrameCountError_nolazy(prev, c) == c # prev + 1

\* _uclog_adc: the test that logs "frame count error"
FrameCountError(prev, c) == prev # None /\ c # prev + 1

InitLink ==
  /\ InitCmd
  /\ variant \in Variants
  /\ eng = InitEng(variant, TRUE)
  /\ obs = InitObs
  /\ ncalls = 0
  /\ codec = NoCodec
  /\ mux = NoMux
  /\ srv = InitSrv(TRUE)
  /\ lk = InitLk
  /\ \E w \in {"send", "read", "adc", "dispatch", "lpf"} : link = NewLink(w)
  /\ InitApp

\* Serial.__call__(data): pad and q_in.put
SerialCall(data) ==
  /\ link.what = "send"
  /\ Len(link.q_in) < MaxSends
  /\ link' = [link EXCEPT !.sent = Append(@, data),
                          !.q_in = Append(@, Pad(data))]
  /\ UNCHANGED <<cmdVars, trigVars, codec, mux, srv, lk, pull, twin, cal>>

\* one pass of MySerialManager.loop: the read returns the bytes c
ReadChunk(c) ==
  /\ link.what = "read"
  /\ Len(link.stream) + Len(c) <= MaxStream
  /\ \E r \in {Deframe(link.indata \o c, link.out)} :
       link' = [link EXCEPT !.stream = @ \o c, !.indata = r.indata,
                            !.out = r.out]
  /\ UNCHANGED <<cmdVars, trigVars, codec, mux, srv, lk, pull, twin, cal>>

\* _uclog_adc for a decodable packet with counter c
UclogAdc(c) ==
  /\ link.what = "adc"
  /\ link.npk < MaxPackets
  /\ link' = [link EXCEPT
       !.reported = FrameCountError(link.adc_frame_count, c),
       !.adc_frame_count = c,
       !.forwarded = TRUE,
       !.c = c,
       !.seen = IF @ < 2 THEN @ + 1 ELSE @,
       !.npk = @ + 1]
  /\ UNCHANGED <<cmdVars, trigVars, codec, mux, srv, lk, pull, twin, cal>>

\* acquisition_stop: self._adc_frame_count = None
AdcCountStop ==
  /\ link.what = "adc"
  /\ link.seen > 0
  /\ link' = [link EXCEPT !.adc_frame_count = None, !.seen = 0,
                          !.reported = FALSE, !.forwarded = FALSE]
  /\ UNCHANGED <<cmdVars, trigVars, codec, mux, srv, lk, pull, twin, cal>>

\* the device sends data on port p: the frame is MuxEncoded, COBS encoded and
\* ended by a zero byte; frames keeps the handler calls it stands for
DeviceSend(p, data) ==
  /\ link.what = "dispatch"
  /\ Len(link.frames) < MaxFrames
  /\ link' = [link EXCEPT
       !.frames = Append(@, PortCall(p, data)),
       !.wire_in = @ \o Enc(MuxEncodeCall(p, data)) \o <<0>>]
  /\ UNCHANGED <<cmdVars, trigVars, codec, mux, srv, lk, pull, twin, cal>>

\* one pass of MySerialManager.loop over the n bytes that wait at the port:
\* every frame completed by them goes through cobs.dec to q_out
ReadWire(n) ==
  /\ link.what = "dispatch"
  /\ n <= Len(link.wire_in)
  /\ \E r \in {Deframe(link.indata \o SubSeq(link.wire_in, 1, n), <<>>)} :
       link' = [link EXCEPT
         !.wire_in = SubSeq(@, n + 1, Len(@)),
         !.indata = r.indata,
         !.q_out = @ \o [k \in 1..Len(r.out) |-> Dec(r.out[k])]]
  /\ UNCHANGED <<cmdVars, trigVars, codec, mux, srv, lk, pull, twin, cal>>

\* Serial.run that takes the newest frame of the queue
SerialRunFrame_newest ==
  /\ link.what = "dispatch"
  /\ link.q_out # <<>>
  /\ link' = [link EXCEPT
       !.q_out = SubSeq(@, 1, Len(@) - 1),
       !.disp = @ \o MuxDecodeCall([ports |-> {0, 1, 2, 3}, log |-> TRUE,
                                    error |-> FALSE],
                                   link.q_out[Len(link.q_out)])]
  /\ UNCHANGED <<cmdVars, trigVars, codec, mux, srv, lk, pull, twin, cal>>

\* one pass of Serial.run: frame = q_out.get(); on_data(frame), which is
\* MuxDecode with the handlers of ports 0 to 3 and of 'log'
SerialRunFrame ==
  /\ link.what = "dispatch"
  /\ link.q_out # <<>>
  /\ link' = [link EXCEPT
       !.q_out = Tail(@),
       !.disp = @ \o MuxDecodeCall([ports |-> {0, 1, 2, 3}, log |-> TRUE,
                                    error |-> FALSE],
                                   Head(link.q_out))]
  /\ UNCHANGED <<cmdVars, trigVars, codec, mux, srv, lk, pull, twin, cal>>

\* _uclog_adc, if self._low_pass_filter: the cached two values are put in
\* front of x, FILTER_OUT weighted sums of three neighbours are taken
\* (weights 0.11, 0.78, 0.11; here in hundredths, rounded down), the last two
\* of them are cached and the others are the channel of the packet
LowPass(cache, x) ==
  LET ext == cache \o x
      wma == [k \in 1..FILTER_OUT |->
                (11 * ext[k] + 78 * ext[k + 1] + 11 * ext[k + 2]) \div 100]
  IN [out |-> SubSeq(wma, 1, FILTER_OUT - 2),
      cache |-> SubSeq(wma, FILTER_OUT - 1, FILTER_OUT)]

\* _uclog_adc with the low-pass filter on for a packet whose channels all
\* carry x, and the lines of _event_adc_stream_in that fill the window of
\* two packets with it
UclogAdcFiltered(x) ==
  /\ link.what = "lpf"
  /\ Len(link.adc.i) < 2 * AdcSamples
  /\ \E fi \in {LowPass(link.i_cache, x)}, fs \in {LowPass(link.isnk_cache, x)} :
       LET item == [i |-> fi.out, isnk |-> fs.out, a0 |-> x, d01 |-> x]
           \* deque(maxlen = NUM_SAMPLES).extend
           Extend(q, y) ==
             LET all == q \o y
             IN IF Len(all) <= 2 * AdcSamples THEN all
                ELSE SubSeq(all, Len(all) - 2 * AdcSamples + 1, Len(all))
       IN link' = [link EXCEPT
            !.i_cache = fi.cache,
            !.isnk_cache = fs.cache,
            !.item = item,
            !.adc = [ch \in DOMAIN item |-> Extend(link.adc[ch], item[ch])],
            !.npk = @ + 1]
  /\ UNCHANGED <<cmdVars, trigVars, codec, mux, srv, lk, pull, twin, cal>>

NextLink ==
  \/ \E data \in UNION {[1..n -> {0, 7}] : n \in 0..MaxSendLen} : SerialCall(data)
  \/ \E c \in UNION {[1..n -> {0, 1, 2}] : n \in 1..MaxChunk} : ReadChunk(c)
  \/ \E c \in 0..MaxCount : UclogAdc(c)
  \/ AdcCountStop
  \/ \E p \in {0, 3}, data \in {<<>>, <<0>>, <<255, LOG_TYPE_PORT>>} :
       DeviceSend(p, data)
  \/ \E n \in 1..MaxStream : ReadWire(n)
  \/ SerialRunFrame
  \/ \E a \in {0, 100}, b \in {0, 100} :
       UclogAdcFiltered([k \in 1..AdcSamples |->
                           IF 2 * k <= AdcSamples THEN a ELSE b])

SpecLink == InitLink /\ [][NextLink]_vars

(***************************************************************************)
(*                               calibrate                                 *)
(***************************************************************************)

\* RETRIES_CALIBRATION_POLL is 60 in the source; the polling loop is the same
\* for every positive value
PollRetries == 5

\* calibrate(force, blocking) is called; the next step is the first
\* cmd_cal_status
CalCall(force, blocking) ==
  /\ cal.pc \in {"idle", "ret"}
  /\ cal' = [pc |-> "status", force |-> force, blocking |-> blocking,
             cal_complete |-> FALSE, retries |-> 0,
             sent |-> FALSE, fresh |-> FALSE, ret |-> FALSE, asked |-> 0]
  /\ UNCHANGED <<cmdVars, trigVars, codec, mux, srv, lk, link, pull, twin>>

\* one uclog_response of calibrate and the lines up to the next one; ok is
\* the success of the exchange, done the cal_done the device answers
CalStep(ok, done) ==
  /\ cal.pc \in {"status", "start", "poll"}
  /\ cal' =
       LET c0 == [cal EXCEPT !.asked = @ + 1] IN
       IF c0.pc = "status"
         THEN IF ~ok THEN [c0 EXCEPT !.pc = "ret", !.ret = FALSE]
              ELSE IF ~done \/ c0.force
                THEN [c0 EXCEPT !.pc = "start", !.cal_complete = done]
                ELSE [c0 EXCEPT !.pc = "ret", !.cal_complete = done,
                                 !.ret = TRUE]
       ELSE IF c0.pc = "start"
         THEN IF ~ok THEN [c0 EXCEPT !.pc = "ret", !.sent = TRUE,
                                      !.ret = FALSE]
              ELSE IF c0.blocking /\ ~c0.cal_complete /\ PollRetries # 0
                THEN [c0 EXCEPT !.pc = "poll", !.sent = TRUE,
                                 !.retries = PollRetries]
                ELSE [c0 EXCEPT !.pc = "ret", !.sent = TRUE, !.ret = TRUE]
       ELSE LET c1 == [c0 EXCEPT !.retries = @ - 1,
                                  !.fresh = @ \/ (ok /\ done)]
            IN IF ~ok \/ c1.retries = 0
                 THEN [c1 EXCEPT !.pc = "ret", !.ret = FALSE]
                 ELSE IF done
                   THEN [c1 EXCEPT !.pc = "ret", !.cal_complete = TRUE,
                                   !.ret = TRUE]
                   ELSE c1
  /\ UNCHANGED <<cmdVars, trigVars, codec, mux, srv, lk, link, pull, twin>>

\* a connected driver; calibrate has not been called
InitDriver == InitCmd /\ InitTrig

NextCal ==
  \/ \E force \in BOOLEAN, blocking \in BOOLEAN : CalCall(force, blocking)
  \/ \E ok \in BOOLEAN, done \in BOOLEAN : CalStep(ok, done)

SpecCal == InitDriver /\ [][NextCal]_vars

(***************************************************************************)
(*                     The two trigger engines side by side                *)
(***************************************************************************)

\* the packets fed to the pair of engines
MaxTwin == 4

\* both drivers get the same set_timebase, set_trigger and
\* acquisition_start; a callback is registered on both
TwinStart(span, ts, mode) ==
  /\ twin.n = 0
  /\ LET Started(v) ==
           AcquisitionStartEng(v,
             SetTriggerEng(SetTimebaseEng(v, InitEng(v, TRUE), span),
                           ts[1], ts[2], ts[3], DefaultLevel),
             mode)
     IN twin' = [n |-> 1, deque |-> Started("deque"), fill |-> Started("fill"),
                 called |-> <<FALSE, FALSE>>, d |-> <<NoData, NoData>>]
  /\ UNCHANGED <<cmdVars, trigVars, codec, mux, srv, lk, link, pull, cal>>

\* the same ADC packet reaches _event_adc_stream_in of both drivers
TwinPacket(pkt) ==
  /\ twin.n \in 1..MaxTwin
  /\ \E rD \in {EventAdcStreamIn("deque", twin.deque, Decode(pkt))},
        rF \in {EventAdcStreamIn("fill", twin.fill, Decode(pkt))} :
       twin' = [n |-> twin.n + 1, deque |-> rD.e, fill |-> rF.e,
                called |-> <<rD.called, rF.called>>, d |-> <<rD.d, rF.d>>]
  /\ UNCHANGED <<cmdVars, trigVars, codec, mux, srv, lk, link, pull, cal>>

NextTwin ==
  \/ \E span \in Spans, ts \in TriggerSetups, mode \in Modes :
       TwinStart(span, ts, mode)
  \/ \E pkt \in Packets : TwinPacket(pkt)

SpecTwin == InitDriver /\ [][NextTwin]_vars

(***************************************************************************)
(*              A command called from the consumer callback                *)
(*                                                                         *)
(* The callback runs on the Serial thread, inside adc_stream_in.  Caller   *)
(* "c1" is the command method the callback calls; "c2" is an application   *)
(* thread.                                                                 *)
(***************************************************************************)

\* the port-0 handler running while the Serial thread is anywhere
InlineDeliver_anytime == Deliver

\* Serial.run: the next frame is taken from the queue only when on_data of
\* the frame before has returned, so _uclog_cmdres runs only while the Serial
\* thread is not inside another handler
InlineDeliver ==
  /\ lk.tpc[SerialThread] = "idle"
  /\ Deliver

NextInline ==
  \/ Frame(3)
  \/ TakeLock(SerialThread)
  \/ \E k \in Keys : lk.tpc[SerialThread] = "adc" /\ CmdEnter("c1", k)
  \/ \E k \in Keys : CmdEnter("c2", k)
  \/ \E t \in Callers : UclogSend(t)
  \/ \E t \in Callers : LoopTop(t)
  \/ \E t \in Callers : WaitGot(t)
  \/ \E t \in Callers : WaitTimeout(t)
  \/ \E t \in Callers : CheckResponses(t)
  \/ \E t \in Callers : CmdReturn(t)
  \/ pc["c1"] = "idle" /\ Return(SerialThread)
  \/ InlineDeliver

SpecInline == InitDriver /\ [][NextInline]_vars

Init == InitCmd /\ InitTrig
Next == NextCmd
Spec == Init /\ [][Next]_vars

SpecTrig == Init /\ [][NextTrig]_vars

SpecPull == InitPull /\ [][NextPull]_vars

(***************************************************************************)
(* Properties of the matcher, checked under Spec.                          *)
(***************************************************************************)

\* C1: a caller that returns a response list gets only maps whose f is the
\* key it sent, and the success flag it returns is the s of the last map,
\* whatever responses for other keys were handled during the call.
C1_OwnKeyOnly ==
  \A t \in Callers :
    (result[t].returned /\ ~result[t].isNone) =>
       /\ Len(result[t].resp) > 0
       /\ \A i \in 1..Len(result[t].resp) : result[t].resp[i].f = f[t]
       /\ result[t].success = result[t].resp[Len(result[t].resp)].s

\* a call returned a list with two maps although a response carrying the
\* other key was handled while it waited
C1_Witness ==
  \E t \in Callers :
    /\ result[t].returned /\ ~result[t].isNone
    /\ Len(result[t].resp) = 2
    /\ hist[t].other

\* C2: a call during which a response with its key reached the handler
\* before the wait budget was used up does not return (False, None).
C2_ResponseInBudgetIsReturned ==
  \A t \in Callers :
    (result[t].returned /\ hist[t].inBudget) => ~result[t].isNone

C4_LateIsUnexpected ==
  lastHandled.late =>
     (lastHandled.kind = "unexpected" /\ ~lastHandled.eventSet)

\* C5: at most one command is between "payload sent" and "method returned".
C5_OneOutstanding ==
  Cardinality({t \in Callers : pc[t] \in {"loop", "wait", "check", "ret"}}) <= 1

\* one caller is waiting for its response while another caller, which may
\* still issue a command, is held off
C5_Witness ==
  \E t1, t2 \in Callers :
    /\ t1 # t2
    /\ pc[t1] = "wait" /\ lock = t1
    /\ pc[t2] = "idle" /\ ncmds < MaxCmds

(***************************************************************************)
(*                   Claims about the trigger engine                       *)
(***************************************************************************)
Channels == {"i", "isnk", "a0", "d0", "d1"}

C7_FiresOnCrossing ==
  LET SlopePredicate(slope, value, level) ==
        IF slope = "TRIG_SLOPE_RISE" THEN value > level ELSE value < level
  IN
  obs.ev.edge.fired =>
    /\ SlopePredicate(obs.ev.edge.slope, obs.ev.edge.cur, obs.ev.edge.level)
    /\ ~SlopePredicate(obs.ev.edge.slope, obs.ev.edge.prev, obs.ev.edge.level)

\* C8: with trigger source NONE in RUN or SINGLE mode and a registered
\* callback, the first window after acquisition_start is delivered while
\* processing the packet that brings fill to N (packet number N / 50), at no
\* earlier or later packet.
C8_FirstWindowAtFill ==
  (/\ obs.ev.first
   /\ obs.clean
   /\ obs.ev.mode \in OscModes
   /\ eng.trigger_src = "TRIG_SRC_NONE")
  => obs.ev.at = TBASE_MAP[eng.timebase_span]

\* C9: in SINGLE mode, between an acquisition_start(SINGLE) and the next
\* acquisition_stop the consumer callback is invoked at most once and
\* data_ready is raised at most once, however many packets arrive.
C9_SingleFiresOnce ==
  (eng.acquire /\ eng.acquire_mode = "ACQUIRE_MODE_SINGLE")
  => (obs.ncb <= 1 /\ obs.nrdy <= 1)

\* C10: in LOGGER mode with a registered callback, a window is delivered at
\* every (N / 50)-th packet regardless of trigger source, level and slope,
\* and the delivered window equals the samples received since the previous
\* window, in order: no sample is lost or repeated.
C10_LoggerWindows ==
  (obs.ev.called /\ obs.clean /\ obs.ev.mode = "ACQUIRE_MODE_LOGGER")
  => (obs.ev.at = TBASE_MAP[eng.timebase_span] /\ obs.ev.inorder)

(***************************************************************************)
(*        Claims about the polling consumer, checked under SpecPull        *)
(***************************************************************************)

\* C11: while data_ready is set, every arriving packet leaves the main
\* window, fill, triggered and data_ready unchanged and is appended in
\* arrival order to the overflow buffer; the overflow buffer never holds
\* more than its capacity per channel, and a packet that would exceed the
\* capacity is dropped as a whole.
C11_BackPressure ==
  [][\A pkt \in PullPackets :
       (eng.acquire /\ eng.acquire_datardy /\ AdcPacket(pkt)) =>
         LET item == WithDigital(Decode(pkt))
             room == Len(eng.adc_buf.i) + Len(item.i) <= AdcBufCap
         IN /\ eng'.adc = eng.adc
            /\ eng'.acquire_triggered = eng.acquire_triggered
            /\ eng'.acquire_datardy
            /\ Len(eng'.adc_buf.i) <= AdcBufCap
            /\ \A key \in Keys5 :
                 eng'.adc_buf[key] = IF room THEN eng.adc_buf[key] \o item[key]
                                     ELSE eng.adc_buf[key]]_vars

\* C12: after data_ready was set and packets arrived unread, once the
\* consumer calls acquisition_get_data and packets keep arriving, packet
\* processing completes without error for every following packet.
C12_HandlerNeverRaises == ~obs.raised

C13_SetTimebaseAborts ==
  [][LET \* the index of a trigger position in a window of n samples
         TriggerIndex(pos, n) ==
           IF pos = "TRIG_POS_CENTER" THEN n \div 2
           ELSE IF pos = "TRIG_POS_LEFT" THEN n \div 4
           ELSE (3 * n) \div 4
         \* fill is 0: no sample of the window has been received
         WindowEmpty(e) ==
           IF variant = "fill" THEN e.adc.fill = 0 ELSE Len(e.adc.i) = 0
     IN /\ \A span \in Spans :
             (eng.acquire /\ SetTimebase(span)) =>
               /\ WindowEmpty(eng')
               /\ ~eng'.acquire_triggered
               /\ ~eng'.acquire_datardy
               /\ eng'.NUM_SAMPLES = NumSamples(span)
               /\ eng'.trigger_idx = TriggerIndex(eng'.trigger_pos, NumSamples(span))
        /\ (obs'.tb /\ obs'.ev.ready) =>
             /\ obs'.ev.lens.i = NumSamples(eng'.timebase_span)
             /\ obs'.ev.fresh]_vars

(***************************************************************************)
(*     Claims about the trigger geometry, checked under SpecTrig           *)
(***************************************************************************)

\* C14: a set_trigger call that changes the trigger position while an
\* acquisition is running resets the trigger engine to the new geometry:
\* when it returns, the window is reset (fill 0, flags clear) and
\* trigger_idx equals the index of the new position.
C14_SetTriggerResets ==
  [][LET \* the index of a trigger position in a window of n samples
         TriggerIndex(pos, n) ==
           IF pos = "TRIG_POS_CENTER" THEN n \div 2
           ELSE IF pos = "TRIG_POS_LEFT" THEN n \div 4
           ELSE (3 * n) \div 4
         \* fill is 0: no sample of the window has been received
         WindowEmpty(e) ==
           IF variant = "fill" THEN e.adc.fill = 0 ELSE Len(e.adc.i) = 0
     IN \A ts \in TriggerSetups :
          (/\ eng.acquire
           /\ ts[2] # eng.trigger_pos
           /\ SetTrigger(ts[1], ts[2], ts[3], DefaultLevel)) =>
            /\ WindowEmpty(eng')
            /\ ~eng'.acquire_triggered
            /\ ~eng'.acquire_datardy
            /\ eng'.trigger_idx = TriggerIndex(ts[2], eng'.NUM_SAMPLES)]_vars

\* C15: at every window delivery, in every mode and after any sequence of
\* set_trigger and set_timebase calls, the delivered time axis is
\* t[k] = t_start + k / sample_rate for the currently configured trigger
\* position, and its zero lies exactly at the index used for trigger
\* detection.
C15_TimeAxis ==
  obs.ev.ready => (obs.ev.taxis /\ obs.ev.tzero)

(***************************************************************************)
(*              Claims about the framing, checked under SpecCobs           *)
(***************************************************************************)

\* C16: COBS round trip: dec(enc(x)) = x for every byte string x, including
\* strings with embedded zero bytes, the empty string, and zero-free runs
\* one below, at and one above the longest group.
C16_CobsRoundTrip ==
  codec.stage = "decoded" => codec.z = codec.x

\* C16: a string with a zero byte between a run of the longest group's
\* length and a run one longer has made the round trip
C16_Witness ==
  /\ codec.stage = "decoded"
  /\ codec.x = Repeat(COBS_FULL, COBS_RUN) \o <<0>> \o Repeat(COBS_FULL, COBS_RUN + 1)
  /\ codec.y[1] = COBS_FULL
  /\ codec.z = codec.x

\* C17: Mux round trip: for every port p in 0..7 with a registered handler
\* and every payload b, passing the output of MuxEncode(p) for b to
\* MuxDecode invokes the handler of port p exactly once with exactly b and
\* invokes no other handler.
C17_MuxRoundTrip ==
  mux.stage = "delivered" => mux.calls = <<PortCall(mux.port, mux.b)>>

\* C17: a payload that starts with the byte of the port type went through
\* port 7 while every handler was registered
C17_Witness ==
  /\ mux.stage = "delivered"
  /\ mux.port = LOG_PORT_MAX - 1
  /\ mux.b = <<LOG_TYPE_PORT, 0>>
  /\ mux.on_data.log
  /\ mux.calls = <<PortCall(mux.port, mux.b)>>


(***************************************************************************)
(*                        Claims about shutdown                            *)
(***************************************************************************)

RECURSIVE WaitChain(_, _)
WaitChain(t, n) ==
  LET holder == IF Wants(t) # "none" THEN lk[Wants(t)] ELSE Free
  IN IF n = 0 \/ holder = Free THEN {}
     ELSE {holder} \cup WaitChain(holder, n - 1)

\* C20: lock ordering: no thread takes the main lock while it holds the
\* response lock or the stream lock, no thread is inside uclog_response while
\* it holds the stream lock, and no interleaving of commands, setters, close
\* and frames of ports 0, 1 and 3 reaches a state in which threads wait for
\* each other's locks.
C20_LockOrdering ==
  /\ [][\A t \in Threads :
          (lk'.lock = t /\ lk.lock # t)
            => (lk.lock_responses # t /\ lk.lock_stream # t)]_vars
  /\ [](\A t \in Threads :
          lk.lock_stream = t
            => lk.tpc[t] \notin {"send_lock", "send", "wait", "check_lock",
                                 "check"})
  /\ [](\A t \in Threads : t \notin WaitChain(t, Cardinality(Threads)))

\* C20 witness: a command holds the main lock and waits for the response
\* lock, which the Serial thread holds in a port handler, while the other
\* API thread holds the stream lock
C20_Witness ==
  /\ \E t \in Callers, u \in Callers :
       /\ t # u
       /\ lk.lock = t
       /\ lk.tpc[t] = "send_lock"
       /\ lk.lock_stream = u
  /\ lk.lock_responses = SerialThread
  /\ lk.tpc[SerialThread] = "async"

\* C21: every read-modify-write of the trigger-engine state is done under
\* the stream lock: a thread that is inside the packet handler, a setter or
\* a window reset of acquisition_start, acquisition_stop or
\* acquisition_get_data holds the stream lock, and the packet handler never
\* runs while an API thread is inside such a reset.
C21_StreamLockGuards ==
  /\ \A t \in Threads :
       lk.tpc[t] \in {"adc", "setter", "reset", "get_data"} => lk.lock_stream = t
  /\ ~(/\ lk.tpc[SerialThread] = "adc"
       /\ \E t \in Callers : lk.tpc[t] \in {"reset", "get_data"})

(***************************************************************************)
(*                      Claims about the serial link                       *)
(***************************************************************************)

\* C22: every block the sender puts on the outbound queue has a length that
\* is a multiple of 4 and is the caller's block followed by 0 to 3 zero
\* bytes; a block whose length is a multiple of 4 is queued unchanged.
C22_PaddedToFour ==
  \A n \in 1..Len(link.q_in) :
    LET data == link.sent[n]
        q == link.q_in[n]
    IN /\ Len(q) % 4 = 0
       /\ Len(q) - Len(data) \in 0..3
       /\ SubSeq(q, 1, Len(data)) = data
       /\ \A k \in (Len(data) + 1)..Len(q) : q[k] = 0
       /\ Len(data) % 4 = 0 => q = data

\* C22 witness: a block of 4 bytes was queued as it is and a block of 1 byte
\* with 3 zero bytes after it
C22_Witness ==
  /\ Len(link.q_in) = 2
  /\ Len(link.sent[1]) = 4 /\ link.q_in[1] = link.sent[1]
  /\ link.sent[2] = <<7>> /\ link.q_in[2] = <<7, 0, 0, 0>>

C23_ReaderStopsOnDisconnect == srv.lost => ~srv.retried

(***************************************************************************)
(* The window resets and the armed flag of the edge search                 *)
(***************************************************************************)
\* C26: every window reset (a callback delivery, a successful
\* acquisition_get_data, an acquisition_start that starts, acquisition_stop,
\* set_timebase) leaves _trigger_idx_precond false
C26_ResetClearsPrecond ==
  [][((\E span \in Spans : SetTimebase(span))
        \/ AcquisitionStop
        \/ (~eng.acquire /\ \E mode \in Modes : AcquisitionStart(mode))
        \/ (eng.acquire_datardy /\ AcquisitionGetData)
        \/ (obs'.ev.called /\ \E pkt \in Packets : AdcPacket(pkt)))
       => ~eng'.trigger_idx_precond]_vars

\* C24: under any interleaving of packet handling with acquisition_start,
\* acquisition_stop, set_timebase and acquisition_get_data: triggered set
\* implies that the window is full (fill == N), data_ready set implies
\* triggered set, and every window reset clears both flags.
C24_FlagInvariants ==
  /\ [](eng.acquire_triggered =>
          IF variant = "fill" THEN eng.adc.fill = eng.NUM_SAMPLES
                              ELSE Len(eng.adc.i) = eng.NUM_SAMPLES)
  /\ [](eng.acquire_datardy => eng.acquire_triggered)
  /\ [][((\E span \in Spans : SetTimebase(span))
           \/ AcquisitionStop
           \/ (~eng.acquire /\ \E mode \in Modes : AcquisitionStart(mode))
           \/ (eng.acquire_datardy /\ AcquisitionGetData))
          => (~eng'.acquire_triggered /\ ~eng'.acquire_datardy)]_vars

(***************************************************************************)
(* The overflow buffer _adc_buf                                            *)
(***************************************************************************)
\* C25: the first packet handled after the consumer pulled the window, with
\* samples held in the overflow buffer, empties the buffer and leaves in
\* the window the buffered samples in arrival order followed by the
\* packet's own samples (as far as the window can hold them all).
C25_BufferDrainedInOrder ==
  [][\A pkt \in PullPackets :
       (obs.ev.pulled /\ eng.acquire /\ eng.adc_buf.i # <<>>
          /\ AdcPacket(pkt))
         => /\ eng'.adc_buf.i = <<>>
            /\ LET all == eng.adc_buf.i \o Decode(pkt).i
                   held == IF variant = "fill"
                             THEN SubSeq(eng'.adc.i, 1, eng'.adc.fill)
                             ELSE eng'.adc.i
               IN Len(all) <= eng.NUM_SAMPLES => held = all]_vars

(***************************************************************************)
(* The edge search with slope EITHER                                       *)
(***************************************************************************)
\* C27: with slope EITHER the direction of a packet's search is the one
\* resolved from the value at trigger_idx before the packet's first sample
\* is pushed (below the level: RISE, otherwise FALL); when the values at
\* and after trigger_idx are above the level and the signal then steps
\* below it, the trigger fires in the packet whose samples bring a value
\* below the level to trigger_idx, at the first such sample and at no
\* earlier one.
C27_EitherSlope ==
  [][\A pkt \in Packets :
       (/\ eng.acquire
        /\ eng.acquire_mode \in OscModes
        /\ eng.trigger_src # "TRIG_SRC_NONE"
        /\ eng.trigger_slope = "TRIG_SLOPE_EITHER"
        /\ ~Filling(variant, eng)
        /\ AdcPacket(pkt))
         => LET src == TrigSrcMap(eng.trigger_src)
                w == eng.adc[src]
                idx == eng.trigger_idx
                level == eng.trigger_level
                seen == w \o WithDigital(Decode(pkt))[src]
                at(k) == seen[idx + 1 + k]
                edge == obs'.ev.edge
            IN /\ edge.fired =>
                    edge.slope = IF w[idx + 1] < level THEN "TRIG_SLOPE_RISE"
                                                       ELSE "TRIG_SLOPE_FALL"
               /\ (idx + 2 <= Len(w) /\ w[idx + 1] > level /\ w[idx + 2] > level)
                    => /\ edge.fired <=> \E k \in 1..PacketLen : at(k) < level
                       /\ edge.fired => /\ edge.cur < level
                                        /\ edge.prev >= level]_vars

\* C27 witness: slope EITHER, the window was above the level at and after
\* trigger_idx, and the search fired on a falling edge at the first sample
\* below the level
C27_Witness ==
  /\ eng.trigger_slope = "TRIG_SLOPE_EITHER"
  /\ eng.trigger_src = "TRIG_SRC_CUR"
  /\ obs.ev.edge.fired
  /\ obs.ev.edge.slope = "TRIG_SLOPE_FALL"
  /\ obs.ev.edge.cur = Lo
  /\ obs.ev.edge.prev = Hi

(***************************************************************************)
(* Port-0 responses that no caller can take                                *)
(***************************************************************************)
\* C29: a port-0 response without field f changes neither the pending
\* responses nor the response event; a response whose key has no pending
\* list is stored alone under its key and leaves the response event, and
\* with it every caller's position, retry count and result, as they were.
C29_StrayResponses ==
  [][Deliver =>
       LET item == Head(wire)
           k == item.f
       IN /\ k \notin Keys =>
               /\ cmd_responses' = cmd_responses
               /\ result_event' = result_event
          /\ (k \in Keys /\ ~cmd_responses[k].present) =>
               /\ cmd_responses' = [cmd_responses EXCEPT ![k] =
                                      [present |-> TRUE, items |-> <<item>>]]
               /\ result_event' = result_event
               /\ pc' = pc
               /\ retries' = retries
               /\ result' = result]_vars

\* C29 witness: a response with a key that had no pending list was stored
\* while a caller waits for another key, and the event is not set
C29_Witness ==
  /\ lastHandled.kind = "unexpected"
  /\ ~result_event
  /\ cmd_responses[lastHandled.key].present
  /\ Len(cmd_responses[lastHandled.key].items) = 1
  /\ \E t \in Callers : pc[t] = "wait" /\ f[t] # lastHandled.key

C40_StartWhileRunning ==
  [][\A mode \in Modes :
       (eng.acquire /\ AcquisitionStart(mode)) => eng' = eng]_vars

\* C40 witness: acquisition_start was the last call, made after a packet of
\* the running acquisition had been handled; the packet is still counted
\* and the acquisition still runs
C40_Witness ==
  /\ eng.acquire
  /\ ncalls = 2
  /\ obs.clean
  /\ obs.since = 1
  /\ obs.ev = NoEvent
  /\ IF variant = "fill" THEN eng.adc.fill = PacketLen
                         ELSE Len(eng.adc.i) = PacketLen

(***************************************************************************)
(* acquisition_stop and a packet handler in progress                        *)
(***************************************************************************)
\* C33: from acquisition_stop to the next acquisition_start (while the
\* acquire flag is clear) triggered and data_ready are clear, also when a
\* packet handler was in progress when stop was called.
C33_StoppedStaysClear ==
  ~eng.acquire => (~eng.acquire_triggered /\ ~eng.acquire_datardy)

(***************************************************************************)
(* The window as a run of the received stream                              *)
(***************************************************************************)
\* C32: in RUN or SINGLE mode with a trigger source other than NONE
\* (fill-counter variant) the window is a contiguous run of the received
\* samples in arrival order: after the packet that completes the initial
\* fill, and before any trigger, it holds the samples received since the
\* start once each, those of the completing packet last.
C32_WindowIsRunOfStream ==
  [][\A pkt \in Packets :
       (/\ variant = "fill"
        /\ eng.acquire
        /\ eng.acquire_mode \in OscModes
        /\ eng.trigger_src # "TRIG_SRC_NONE"
        /\ eng.adc.fill + PacketLen = eng.NUM_SAMPLES
        /\ AdcPacket(pkt)
        /\ ~obs'.ev.ready)
         => eng'.adc.i = SubSeq(eng.adc.i, 1, eng.adc.fill) \o pkt]_vars

\* C34: of two threads calling acquisition_get_data on one data_ready
\* window, at most one gets (True, window), and no caller is handed the
\* freshly reset window as data
C34_OneConsumerPerWindow ==
  pull.n = 1 =>
    /\ ~(pull.ok[1] /\ pull.ok[2])
    /\ ~pull.reset[1]
    /\ ~pull.reset[2]

\* C38: calibrate(force=True, blocking=True) returns True only after a
\* cmd_cal_status answer with cal_done true that was received after cmd_cal
\* was sent
C38_ForcedCalibrationWaits ==
  (cal.pc = "ret" /\ cal.force /\ cal.blocking /\ cal.ret) => cal.fresh

\* C35: fed the same mode, trigger setup, timebase and packets, the deque
\* engine and the fill engine call the consumer at the same packets and
\* hand it windows with the same i, isnk, a0, d0 and d1
C35_VariantsEquivalent ==
  twin.n > 0 =>
    /\ twin.called[1] = twin.called[2]
    /\ twin.called[1] =>
         \A ch \in {"i", "isnk", "a0", "d0", "d1"} :
           twin.d[1][ch] = twin.d[2][ch]

C36_CommandInCallbackFails ==
  (pc["c1"] = "ret" /\ hist["c1"].nsent = 1) =>
    /\ result["c1"] = FalseNone
    /\ hist["c1"].timeouts = RETRIES - 1
    /\ ~hist["c1"].deliv
    /\ lk.tpc[SerialThread] = "adc"

\* C36 witness: the call made in the callback has timed out while the
\* device's answer to it waits to be dispatched
C36_Witness ==
  /\ pc["c1"] = "ret"
  /\ result["c1"] = FalseNone
  /\ hist["c1"].nsent = 1
  /\ hist["c1"].timeouts = RETRIES - 1
  /\ wire # <<>>
  /\ wire[1].f = f["c1"]
  /\ lk.tpc[SerialThread] = "adc"

\* C39: with the low-pass filter on, every packet handed to the trigger
\* engine has as many samples on i and isnk as on a0 and d01, and so has
\* the window filled from these packets
C39_FilteredChannelsAligned ==
  (link.what = "lpf" /\ link.npk > 0) =>
    /\ Len(link.item.i) = Len(link.item.a0)
    /\ Len(link.item.isnk) = Len(link.item.d01)
    /\ Len(link.adc.i) = Len(link.adc.a0)
    /\ Len(link.adc.isnk) = Len(link.adc.a0)
====
